---- MODULE Spec2Model ----
(***************************************************************************)
(* A model of pnp-rs: the path normaliser (src/src/util.rs), the specifier *)
(* parser and the Plug'n'Play resolution engine (src/src/lib.rs).          *)
(*                                                                         *)
(* Strings are sequences of one-character strings, so that splitting,      *)
(* prefixes and joins are computed character by character as the code      *)
(* computes them.  Str("ab") is written <<"a", "b">>.                      *)
(***************************************************************************)
EXTENDS Integers, Sequences, FiniteSets, TLC

VARIABLES
    original,       \* normalize_path: the argument
    normalized,     \* normalize_path(original)
    renormalized,   \* normalize_path(normalized)
    specifier,      \* parse_bare_identifier: the argument
    parsed,         \* parse_bare_identifier(specifier)
    manifest,       \* the Manifest the host callback hands out
    request,        \* resolve_to_unqualified: specifier, parent, host answer
    resolution,     \* resolve_to_unqualified: the Result it returned
    vpath_p,        \* vpath: the argument p
    classified,     \* vpath: the io::Result it returned, or its abort
    zip_file,       \* open_zip_via_read: the file at the path
    zip_value,      \* open_zip_via_read: the io::Result it returned, or its abort
    zip_query,      \* the name the Zip is asked for
    zip_file_type,  \* Zip::file_type(zip_query)
    zip_read,       \* Zip::read(zip_query)
    trie_inner,     \* Trie: the map of the inner radix trie, key -> value
    trie_keys,      \* Trie: the paths given to insert, in the order of the calls
    trie_query,     \* Trie::get_ancestor_value: the argument
    trie_answer,    \* Trie::get_ancestor_value(trie_query)
    manifest_file,  \* load_pnp_manifest: the file at the path
    loaded,         \* load_pnp_manifest: the Result it returned, or its abort
    located,        \* find_locator on the loaded manifest: the path and the answer
    zip_storage,    \* Zip: the bytes of the storage
    found_offset,   \* find_central_directory_offset: the Result it returned, or its abort
    zip_indexed,    \* Zip::new(zip_storage): the Result it returned, or its abort
    storage_query,  \* Zip::read on the storage: the argument
    storage_read    \* Zip::read(storage_query) on the storage

normVars == <<original, normalized, renormalized>>
parseVars == <<specifier, parsed>>
resolveVars == <<manifest, request, resolution>>
vpathVars == <<vpath_p, classified>>
zipVars == <<zip_file, zip_value, zip_query, zip_file_type, zip_read>>
fsVars == <<vpathVars, zipVars>>
trieVars == <<trie_inner, trie_keys, trie_query, trie_answer>>
loadVars == <<manifest_file, loaded, located>>
storageVars == <<zip_storage, found_offset, zip_indexed, storage_query, storage_read>>
laterVars == <<trieVars, loadVars, storageVars>>
outsideTrie == <<normVars, parseVars, resolveVars, fsVars, loadVars, storageVars>>
outsideLoad == <<normVars, parseVars, resolveVars, fsVars, trieVars, storageVars>>
outsideStorage == <<normVars, parseVars, resolveVars, fsVars, trieVars, loadVars>>
vars == <<original, normalized, renormalized, specifier, parsed, manifest, request, resolution,
          vpath_p, classified, zip_file, zip_value, zip_query, zip_file_type, zip_read,
          trie_inner, trie_keys, trie_query, trie_answer, manifest_file, loaded, located,
          zip_storage, found_offset, zip_indexed, storage_query, storage_read>>

(***************************************************************************)
(* Bounds of the model.                                                    *)
(***************************************************************************)
\* longest path string given to normalize_path
MaxPathLen == 7
\* longest specifier given to parse_bare_identifier
MaxSpecLen == 6
\* most central file headers of an archive
MaxEntries == 2
\* most plain segments before, and after, the virtual part of a path given
\* to vpath
MaxSegments == 2

(***************************************************************************)
(* String helpers (the std library calls the code makes).                  *)
(***************************************************************************)
\* a value of a string variable that holds no string yet
Unset == <<"<unset>">>

\* all strings over an alphabet, up to a length
Strings(alphabet, n) == UNION {[1..k -> alphabet] : k \in 0..n}

\* str::starts_with
starts_with(s, p) == Len(s) >= Len(p) /\ SubSeq(s, 1, Len(p)) = p

\* str::ends_with
ends_with(s, p) == Len(s) >= Len(p) /\ SubSeq(s, Len(s) - Len(p) + 1, Len(s)) = p

\* str::split on a set of separator characters: "a//b" gives "a", "", "b"
split(s, seps) ==
    LET RECURSIVE go(_, _, _)
        go(i, cur, acc) ==
            IF i > Len(s) THEN Append(acc, cur)
            ELSE IF s[i] \in seps THEN go(i + 1, <<>>, Append(acc, cur))
            ELSE go(i + 1, Append(cur, s[i]), acc)
    IN go(1, <<>>, <<>>)

\* str::splitn: at most n pieces, the last one holding the rest of the string
splitn(s, n, sep) ==
    LET RECURSIVE go(_, _, _)
        go(i, cur, acc) ==
            IF i > Len(s) THEN Append(acc, cur)
            ELSE IF s[i] = sep /\ Len(acc) < n - 1 THEN go(i + 1, <<>>, Append(acc, cur))
            ELSE go(i + 1, Append(cur, s[i]), acc)
    IN go(1, <<>>, <<>>)

\* [&str]::join
join(parts, sep) ==
    LET RECURSIVE go(_)
        go(i) ==
            IF i > Len(parts) THEN <<>>
            ELSE IF i = 1 THEN parts[1] \o go(2)
            ELSE sep \o parts[i] \o go(i + 1)
    IN go(1)

(***************************************************************************)
(* src/src/util.rs: normalize_path.                                        *)
(***************************************************************************)
\* the build target: the cfg(windows) blocks of util.rs are compiled iff TRUE
WINDOWS == FALSE

\* std::path::MAIN_SEPARATOR_STR of the build target
MAIN_SEPARATOR_STR == IF WINDOWS THEN <<"\\">> ELSE <<"/">>

\* the character class [a-zA-Z] of the path regular expressions
Letters ==
    {"a", "b", "c", "d", "e", "f", "g", "h", "i", "j", "k", "l", "m", "n", "o", "p", "q", "r", "s", "t", "u", "v", "w", "x", "y", "z",
     "A", "B", "C", "D", "E", "F", "G", "H", "I", "J", "K", "L", "M", "N", "O", "P", "Q", "R", "S", "T", "U", "V", "W", "X", "Y", "Z"}
\* the character class [\/\\]
IsSep(c) == c \in {"/", "\\"}

\* to_portable_path: identity unless cfg(windows); there "X:..." gets a leading
\* '/' and "\\[.\]rest" becomes "/unc/[.dot/]rest"
to_portable_path(str) ==
    IF ~WINDOWS THEN str
    ELSE IF Len(str) >= 2 /\ str[1] \in Letters /\ str[2] = ":" THEN <<"/">> \o str
    ELSE IF Len(str) >= 2 /\ IsSep(str[1]) /\ IsSep(str[2])
         THEN IF Len(str) >= 4 /\ str[3] = "." /\ IsSep(str[4])
              THEN <<"/", "u", "n", "c", "/", ".", "d", "o", "t", "/">> \o SubSeq(str, 5, Len(str))
              ELSE <<"/", "u", "n", "c", "/">> \o SubSeq(str, 3, Len(str))
    ELSE str

\* from_portable_path: identity unless cfg(windows); there "/X:..." loses its
\* leading '/' and "/unc/[.dot/]rest" becomes "\\[.\]rest"
from_portable_path(str) ==
    IF ~WINDOWS THEN str
    ELSE IF Len(str) >= 3 /\ str[1] = "/" /\ str[2] \in Letters /\ str[3] = ":" THEN Tail(str)
    ELSE IF starts_with(str, <<"/", "u", "n", "c", "/">>)
         THEN IF starts_with(str, <<"/", "u", "n", "c", "/", ".", "d", "o", "t", "/">>)
              THEN <<"\\", "\\", ".", "\\">> \o SubSeq(str, 11, Len(str))
              ELSE <<"\\", "\\">> \o SubSeq(str, 6, Len(str))
    ELSE str

\* walk_step without the arm "None if check_str_root.is_some()": a ".." at
\* the root is pushed like a ".." of a relative path
walk_step_no_root_arm(out, comp, rooted) ==
    IF comp = <<>> \/ comp = <<".">> THEN out
    ELSE IF comp = <<".", ".">>
         THEN IF out = <<>> \/ out[Len(out)] = <<".", ".">> THEN Append(out, comp)
              ELSE SubSeq(out, 1, Len(out) - 1)
    ELSE Append(out, comp)

\* one iteration of the loop over the components (the match on comp)
walk_step(out, comp, rooted) ==
    IF comp = <<>> \/ comp = <<".">> THEN out
    ELSE IF comp = <<".", ".">>
         THEN IF out = <<>> /\ rooted THEN out
              ELSE IF out = <<>> \/ out[Len(out)] = <<".", ".">> THEN Append(out, comp)
              ELSE SubSeq(out, 1, Len(out) - 1)
    ELSE Append(out, comp)

\* the loop over the components, from an empty output stack
walk(components, rooted) ==
    LET RECURSIVE go(_, _)
        go(i, out) ==
            IF i > Len(components) THEN out
            ELSE go(i + 1, walk_step(out, components[i], rooted))
    IN go(1, <<>>)

\* wants_trailing_slash with the test of the input's end negated
wants_trailing_slash_negated(original_str, str) ==
    ~(ends_with(original_str, <<"/">>) \/ ends_with(original_str, MAIN_SEPARATOR_STR))
    /\ ~ends_with(str, <<"/">>)

\* the condition under which the trailing '/' is pushed
wants_trailing_slash(original_str, str) ==
    (ends_with(original_str, <<"/">>) \/ ends_with(original_str, MAIN_SEPARATOR_STR))
    /\ ~ends_with(str, <<"/">>)

normalize_path(orig) ==
    LET original_str == to_portable_path(orig)
        rooted == starts_with(original_str, <<"/">>)
        str_minus_root == IF rooted THEN Tail(original_str) ELSE original_str
        components == split(str_minus_root, {"/", "\\"})
        walked == walk(components, rooted)
    IN  IF rooted /\ walked = <<>> THEN <<"/">>
        ELSE LET out == IF rooted THEN <<(<<>>)>> \o walked ELSE walked
                 str == join(out, <<"/">>)
             IN  IF out = <<>> THEN <<".">>
                 ELSE from_portable_path(
                        IF wants_trailing_slash(original_str, str)
                        THEN Append(str, "/") ELSE str)

(***************************************************************************)
(* src/src/lib.rs: parse_bare_identifier.                                  *)
(***************************************************************************)
\* Option::None of a subpath, and the value of a failed parse
NoSubpath == <<"<none>">>
BadSpecifier(spec) == [kind |-> "BadSpecifier", name |-> <<>>, subpath |-> NoSubpath, specifier |-> spec]
Parsed(name, subpath, spec) == [kind |-> "Ok", name |-> name, subpath |-> subpath, specifier |-> spec]

\* parse_scoped_package_name that stops the name at the first '/', as
\* parse_global_package_name does
parse_scoped_package_name_one_segment(spec) ==
    LET segments == splitn(spec, 2, "/")
    IN  IF Len(segments) < 2 THEN BadSpecifier(spec)
        ELSE Parsed(segments[1], segments[2], spec)

\* None when a '?' returns early, else (package_name, subpath)
parse_scoped_package_name(spec) ==
    LET segments == splitn(spec, 3, "/")
    IN  IF Len(segments) < 2 THEN BadSpecifier(spec)
        ELSE Parsed(SubSeq(spec, 1, Len(segments[1]) + Len(segments[2]) + 1),
                    IF Len(segments) >= 3 THEN segments[3] ELSE NoSubpath,
                    spec)

parse_global_package_name(spec) ==
    LET segments == splitn(spec, 2, "/")
    IN  Parsed(segments[1],
               IF Len(segments) >= 2 THEN segments[2] ELSE NoSubpath,
               spec)

parse_bare_identifier(spec) ==
    IF starts_with(spec, <<"@">>)
    THEN parse_scoped_package_name(spec)
    ELSE parse_global_package_name(spec)

\* no call of normalize_path, of parse_bare_identifier made
IdleNorm == original = Unset /\ normalized = Unset /\ renormalized = Unset
IdleParse == specifier = Unset /\ parsed = BadSpecifier(Unset)

\* no path has been classified
NoVPath == [kind |-> "<none>"]
IdleVPath == vpath_p = Unset /\ classified = NoVPath

\* no file has been opened, and no Zip has been asked
NoZipFile == [end_of_central_directory |-> FALSE, headers |-> <<"<idle>">>]
NoZip == [kind |-> "<none>"]
NoAnswer == [kind |-> "<none>"]
IdleZip ==
    /\ zip_file = NoZipFile
    /\ zip_value = NoZip
    /\ zip_query = Unset
    /\ zip_file_type = NoAnswer
    /\ zip_read = NoAnswer

IdleFs == IdleVPath /\ IdleZip

\* no Trie has been built or asked
NoTrieAnswer == [name |-> <<"<unasked>">>, reference |-> <<"<unasked>">>]
IdleTrie ==
    /\ trie_inner = [k \in {} |-> <<>>]
    /\ trie_keys = <<>>
    /\ trie_query = Unset
    /\ trie_answer = NoTrieAnswer

\* no manifest file has been loaded
NoManifestFile == [readable |-> FALSE, marker |-> FALSE, payload |-> [manifest_path |-> <<"<idle>">>]]
NotLoaded == [kind |-> "<none>"]
NotLocated == [path |-> <<"<unset>">>, locator |-> [name |-> <<"<unasked>">>, reference |-> <<"<unasked>">>]]
IdleLoad ==
    /\ manifest_file = NoManifestFile
    /\ loaded = NotLoaded
    /\ located = NotLocated

\* no storage has been searched, indexed or read
NotSearched == [kind |-> "<none>"]
IdleStorage ==
    /\ zip_storage = <<>>
    /\ found_offset = NotSearched
    /\ zip_indexed = NoZip
    /\ storage_query = Unset
    /\ storage_read = NoAnswer

IdleLater == IdleTrie /\ IdleLoad /\ IdleStorage

(***************************************************************************)
(* src/src/lib.rs: the manifest model.                                     *)
(***************************************************************************)
\* PackageLocator
Locator(name, reference) == [name |-> name, reference |-> reference]

\* Option<&PackageLocator>::None
NoLocator == Locator(<<"<none>">>, <<"<none>">>)

\* Option<PackageDependency>: None, Some(Reference(r)), Some(Alias(n, r))
NoneDependency == [tag |-> "None", name |-> <<>>, reference |-> <<>>]
Reference(reference) == [tag |-> "Reference", name |-> <<>>, reference |-> reference]
Alias(name, reference) == [tag |-> "Alias", name |-> name, reference |-> reference]

\* PackageInformation
PackageInformation(location, discard, dependencies) ==
    [package_location |-> location,
     discard_from_lookup |-> discard,
     package_dependencies |-> dependencies]

\* a HashMap with no entry
EmptyMap == [k \in {} |-> <<>>]

\* Option<RegexDef>::None, and a regular expression "^literal"
NoRegex == [literal |-> <<"<none>">>]
RegexDef(literal) == [literal |-> literal]

\* Regex::is_match for the expressions "^literal"
is_match(regex, text) == starts_with(text, regex.literal)

(***************************************************************************)
(* std::path and pathdiff, as the code calls them (a Unix build: '/' is    *)
(* the only separator of a Path).                                          *)
(***************************************************************************)
\* Option<PathBuf>::None
NoPath == <<"<none>">>

\* Path::is_absolute
is_absolute(path) == starts_with(path, <<"/">>)

\* Path::components: the root, then the segments without "" and "."; a "."
\* is kept only as the first component of a relative path
components(path) ==
    LET segs == split(path, {"/"})
        RECURSIVE go(_)
        go(i) ==
            IF i > Len(segs) THEN <<>>
            ELSE IF segs[i] = <<>> THEN go(i + 1)
            ELSE IF segs[i] = <<".">> /\ (i > 1 \/ is_absolute(path)) THEN go(i + 1)
            ELSE <<segs[i]>> \o go(i + 1)
    IN  (IF is_absolute(path) THEN <<(<<"/">>)>> ELSE <<>>) \o go(1)

\* PathBuf collected from components
from_components(comps) ==
    IF comps # <<>> /\ comps[1] = <<"/">>
    THEN <<"/">> \o join(Tail(comps), <<"/">>)
    ELSE join(comps, <<"/">>)

\* Path::parent
parent_dir(path) ==
    LET comps == components(path)
    IN  IF comps = <<>> \/ comps = <<(<<"/">>)>> THEN NoPath
        ELSE from_components(SubSeq(comps, 1, Len(comps) - 1))

\* Path::join: an absolute argument replaces the base
path_join(base, path) ==
    IF is_absolute(path) THEN path
    ELSE IF base = <<>> \/ ends_with(base, <<"/">>) THEN base \o path
    ELSE base \o <<"/">> \o path

\* pathdiff::diff_paths
diff_paths(path, base) ==
    LET ita == components(path)
        itb == components(base)
        RECURSIVE go(_, _)
        go(i, comps) ==
            IF i > Len(ita) /\ i > Len(itb) THEN comps
            ELSE IF i > Len(itb) THEN comps \o SubSeq(ita, i, Len(ita))
            ELSE IF i > Len(ita) THEN go(i + 1, Append(comps, <<".", ".">>))
            ELSE IF comps = <<>> /\ ita[i] = itb[i] THEN go(i + 1, comps)
            ELSE IF itb[i] = <<".">> THEN go(i + 1, Append(comps, ita[i]))
            ELSE IF itb[i] = <<".", ".">> THEN <<NoPath>>
            ELSE comps \o [j \in 1..(Len(itb) - i + 1) |-> <<".", ".">>]
                       \o SubSeq(ita, i, Len(ita))
    IN  IF is_absolute(path) # is_absolute(base)
        THEN IF is_absolute(path) THEN path ELSE NoPath
        ELSE LET comps == go(1, <<>>)
             IN  IF comps = <<NoPath>> THEN NoPath ELSE from_components(comps)

(***************************************************************************)
(* src/src/util.rs: Trie.  The trie is the map from its keys to the        *)
(* locators inserted under them.                                           *)
(***************************************************************************)
\* Trie::key without the push of the trailing '/'
trie_key_unforced(path) == normalize_path(path)

\* Trie::key: the normalised path with a forced trailing '/'
trie_key(path) ==
    LET p == normalize_path(path)
    IN  IF ends_with(p, <<"/">>) THEN p ELSE Append(p, "/")

\* Trie::insert: a later insert under the same key replaces the value
trie_insert(trie, path, value) ==
    LET k == trie_key(path)
    IN  [key \in DOMAIN trie \cup {k} |-> IF key = k THEN value ELSE trie[key]]

\* Trie::get_ancestor_value: the value under the longest key that is a
\* prefix of the query's key
trie_get_ancestor_value(trie, path) ==
    LET k == trie_key(path)
        ancestors == {key \in DOMAIN trie : starts_with(k, key)}
    IN  IF ancestors = {} THEN NoLocator
        ELSE trie[CHOOSE key \in ancestors : \A other \in ancestors : Len(other) <= Len(key)]

(***************************************************************************)
(* src/src/lib.rs: init_pnp_manifest.                                      *)
(***************************************************************************)
\* the abort of a failed expect()
Panic(message) == [kind |-> "Panic", message |-> message]

\* the registry's locators
registry_locators(m) ==
    UNION {{Locator(name, reference) : reference \in DOMAIN m.package_registry_data[name]} :
              name \in DOMAIN m.package_registry_data}

\* the orders in which the loop over package_registry_data can meet the
\* packages (a HashMap iterates in an unspecified order)
iteration_orders(m) ==
    LET locs == registry_locators(m)
    IN  {order \in [1..Cardinality(locs) -> locs] :
            \A i, j \in 1..Cardinality(locs) : i # j => order[i] # order[j]}

\* the first loop: every package_location is resolved against manifest_dir
normalized_location(manifest_dir, info) ==
    normalize_path(path_join(manifest_dir, info.package_location))

\* the first loop with no test of discard_from_lookup
build_location_trie_of_all(m, manifest_dir, order) ==
    LET RECURSIVE go(_, _)
        go(i, trie) ==
            IF i > Len(order) THEN trie
            ELSE LET info == m.package_registry_data[order[i].name][order[i].reference]
                 IN  go(i + 1, trie_insert(trie, normalized_location(manifest_dir, info), order[i]))
    IN  go(1, m.location_trie)

\* the first loop: the trie gets the packages that are not discarded, in the
\* order the loop meets them
build_location_trie(m, manifest_dir, order) ==
    LET RECURSIVE go(_, _)
        go(i, trie) ==
            IF i > Len(order) THEN trie
            ELSE LET info == m.package_registry_data[order[i].name][order[i].reference]
                 IN  go(i + 1,
                        IF info.discard_from_lookup THEN trie
                        ELSE trie_insert(trie, normalized_location(manifest_dir, info), order[i]))
    IN  go(1, m.location_trie)

\* the second loop with the top-level package's dependencies written over
\* the entries of fallback_pool
extend_fallback_pool_overwriting(pool, top_level_pkg) ==
    LET deps == top_level_pkg.package_dependencies
    IN  [name \in DOMAIN pool \cup DOMAIN deps |->
            IF name \in DOMAIN deps THEN deps[name] ELSE pool[name]]

\* the second loop: the top-level package's dependencies fill the vacant
\* entries of fallback_pool
extend_fallback_pool(pool, top_level_pkg) ==
    LET deps == top_level_pkg.package_dependencies
    IN  [name \in DOMAIN pool \cup DOMAIN deps |->
            IF name \in DOMAIN pool THEN pool[name] ELSE deps[name]]

\* the two expect() calls on the top-level package abort when
\* package_registry_data has no "" name, or no "" reference under it
init_pnp_manifest(m, p, order) ==
    LET manifest_dir == parent_dir(p)
        registry == [name \in DOMAIN m.package_registry_data |->
                        [reference \in DOMAIN m.package_registry_data[name] |->
                            LET info == m.package_registry_data[name][reference]
                            IN  [info EXCEPT !.package_location =
                                    normalized_location(manifest_dir, info)]]]
        top_level_pkg == registry[<<>>][<<>>]
    IN  IF manifest_dir = NoPath THEN Panic("Should have a parent directory")
        ELSE IF <<>> \notin DOMAIN m.package_registry_data
        THEN Panic("Assertion failed: Should have a top-level name key")
        ELSE IF <<>> \notin DOMAIN m.package_registry_data[<<>>]
        THEN Panic("Assertion failed: Should have a top-level range key")
        ELSE
        [m EXCEPT !.manifest_path = p,
                  !.manifest_dir = manifest_dir,
                  !.package_registry_data = registry,
                  !.location_trie = build_location_trie(m, manifest_dir, order),
                  !.fallback_pool = extend_fallback_pool(m.fallback_pool, top_level_pkg)]

(***************************************************************************)
(* src/src/lib.rs: the resolution engine.                                  *)
(***************************************************************************)
\* Resolution and Error values
Skipped == [kind |-> "Skipped"]
Resolved(path, subpath) == [kind |-> "Resolved", path |-> path, subpath |-> subpath]
FailedManifestHydration == [kind |-> "FailedManifestHydration"]
UndeclaredDependency(message, spec, ident, locator, path) ==
    [kind |-> "UndeclaredDependency", message |-> message, request |-> spec,
     dependency_name |-> ident, issuer_locator |-> locator, issuer_path |-> path]
MissingPeerDependency(message, spec, ident, locator, path) ==
    [kind |-> "MissingPeerDependency", message |-> message, request |-> spec,
     dependency_name |-> ident, issuer_locator |-> locator, issuer_path |-> path,
     broken_ancestors |-> <<>>]

\* the locator find_locator returns when its expect() aborts
AbortedLocator == Locator(<<"<panic>">>, <<"<panic>">>)

is_dependency_tree_root(m, locator) == locator \in m.dependency_tree_roots

\* find_locator with the ignore pattern matched against the issuer path
\* itself, not against the path relative to manifest_dir
find_locator_absolute_pattern(m, path) ==
    IF diff_paths(path, m.manifest_dir) = NoPath THEN AbortedLocator
    ELSE IF m.ignore_pattern_data # NoRegex
            /\ is_match(m.ignore_pattern_data, normalize_path(path))
         THEN NoLocator
    ELSE trie_get_ancestor_value(m.location_trie, path)

find_locator(m, path) ==
    LET rel_path == diff_paths(path, m.manifest_dir)
    IN  IF rel_path = NoPath THEN AbortedLocator
        ELSE IF m.ignore_pattern_data # NoRegex
                /\ is_match(m.ignore_pattern_data, normalize_path(rel_path))
             THEN NoLocator
        ELSE trie_get_ancestor_value(m.location_trie, path)

\* get_package: both expect() calls abort on a missing entry
get_package(m, locator) ==
    IF locator.name \notin DOMAIN m.package_registry_data
    THEN Panic("Should have an entry in the package registry")
    ELSE IF locator.reference \notin DOMAIN m.package_registry_data[locator.name]
    THEN Panic("Should have an entry in the package registry")
    ELSE m.package_registry_data[locator.name][locator.reference]

\* is_excluded_from_fallback with the membership test negated
is_excluded_from_fallback_negated(m, locator) ==
    IF locator.name \in DOMAIN m.fallback_exclusion_list
    THEN locator.reference \notin m.fallback_exclusion_list[locator.name]
    ELSE FALSE

is_excluded_from_fallback(m, locator) ==
    IF locator.name \in DOMAIN m.fallback_exclusion_list
    THEN locator.reference \in m.fallback_exclusion_list[locator.name]
    ELSE FALSE

\* the builtins module (is_nodejs_builtin): a closed, enumerated set of names
NodeBuiltins == {<<"f", "s">>}
is_nodejs_builtin(spec) == spec \in NodeBuiltins

\* the pair (is_set, reference_or_alias) the two lookups maintain
NotSet == [is_set |-> FALSE, reference_or_alias |-> NoneDependency]
SetTo(dependency) == [is_set |-> TRUE, reference_or_alias |-> dependency]

\* the lookup in the issuer's own package_dependencies: only Some(Some(_))
\* sets the binding
lookup_own_dependency(parent_pkg, ident) ==
    IF ident \in DOMAIN parent_pkg.package_dependencies
       /\ parent_pkg.package_dependencies[ident] # NoneDependency
    THEN SetTo(parent_pkg.package_dependencies[ident])
    ELSE NotSet

\* lookup_fallback without the test of enable_top_level_fallback
lookup_fallback_always_enabled(m, parent_locator, ident, binding) ==
    IF ~binding.is_set
       /\ ~is_excluded_from_fallback(m, parent_locator)
       /\ ident \in DOMAIN m.fallback_pool
    THEN SetTo(m.fallback_pool[ident])
    ELSE binding

\* lookup_fallback that also runs when the issuer's own lookup has set the
\* binding
lookup_fallback_over_own(m, parent_locator, ident, binding) ==
    IF m.enable_top_level_fallback
       /\ ~is_excluded_from_fallback(m, parent_locator)
       /\ ident \in DOMAIN m.fallback_pool
    THEN SetTo(m.fallback_pool[ident])
    ELSE binding

\* the lookup in fallback_pool, made when the binding is not set, the
\* fallback is enabled and the issuer is not excluded
lookup_fallback(m, parent_locator, ident, binding) ==
    IF ~binding.is_set
       /\ m.enable_top_level_fallback
       /\ ~is_excluded_from_fallback(m, parent_locator)
       /\ ident \in DOMAIN m.fallback_pool
    THEN SetTo(m.fallback_pool[ident])
    ELSE binding

\* which of the four texts the UndeclaredDependency message is built from
undeclared_message(m, spec, parent_locator) ==
    IF is_nodejs_builtin(spec)
    THEN IF is_dependency_tree_root(m, parent_locator)
         THEN "builtin, required by the application"
         ELSE "builtin, required by a package"
    ELSE IF is_dependency_tree_root(m, parent_locator)
         THEN "undeclared, required by the application"
         ELSE "undeclared, required by a package"

\* find_broken_peer_dependencies: always the empty list
find_broken_peer_dependencies(spec, initial_package) == <<>>

\* which of the three texts the MissingPeerDependency message is built from
missing_peer_message(m, spec, parent_locator) ==
    LET broken_ancestors == find_broken_peer_dependencies(spec, parent_locator)
    IN  IF is_dependency_tree_root(m, parent_locator)
        THEN "peer, required by the application"
        ELSE IF broken_ancestors # <<>>
                /\ \A i \in 1..Len(broken_ancestors) :
                       is_dependency_tree_root(m, broken_ancestors[i])
             THEN "peer, not provided by the application"
        ELSE "peer, not provided by the ancestors"

\* the locator of the package a binding names
dependency_locator(ident, dependency) ==
    IF dependency.tag = "Reference"
    THEN Locator(ident, dependency.reference)
    ELSE Locator(dependency.name, dependency.reference)

\* the outcome once the target package has been looked up: its location and
\* the subpath, or the abort of get_package
resolve_dependency(dependency_pkg, module_path) ==
    IF "kind" \in DOMAIN dependency_pkg THEN dependency_pkg
    ELSE Resolved(dependency_pkg.package_location, module_path)

\* the outcome once the two lookups have made the binding: "if !is_set",
\* then "if let Some(dependency) = reference_or_alias ... else"
resolve_binding(m, spec, parent, ident, module_path, parent_locator, binding) ==
    IF ~binding.is_set
    THEN UndeclaredDependency(undeclared_message(m, spec, parent_locator),
                              spec, ident, parent_locator, parent)
    ELSE IF binding.reference_or_alias # NoneDependency
    THEN resolve_dependency(
             get_package(m, dependency_locator(ident, binding.reference_or_alias)),
             module_path)
    ELSE MissingPeerDependency(missing_peer_message(m, spec, parent_locator),
                               spec, ident, parent_locator, parent)

\* the body of "if let Some(parent_locator) = find_locator(..)" once the
\* issuer's package has been looked up: the own lookup, then the fallback
resolve_in_package(m, spec, parent, ident, module_path, parent_locator, parent_pkg) ==
    IF "kind" \in DOMAIN parent_pkg THEN parent_pkg
    ELSE resolve_binding(m, spec, parent, ident, module_path, parent_locator,
             lookup_fallback(m, parent_locator, ident,
                             lookup_own_dependency(parent_pkg, ident)))

\* "if let Some(parent_locator) = find_locator(..) { .. } else { Skipped }"
resolve_from_locator(m, spec, parent, ident, module_path, parent_locator) ==
    IF parent_locator = AbortedLocator
    THEN Panic("Assertion failed: Provided path should be absolute")
    ELSE IF parent_locator = NoLocator THEN Skipped
    ELSE resolve_in_package(m, spec, parent, ident, module_path, parent_locator,
                            get_package(m, parent_locator))

\* "let (ident, module_path) = parse_bare_identifier(specifier)?", then
\* find_locator
resolve_parsed(m, spec, parent, parse) ==
    IF parse.kind = "BadSpecifier" THEN parse
    ELSE resolve_from_locator(m, spec, parent, parse.name, parse.subpath,
                              find_locator(m, parent))

resolve_to_unqualified_via_manifest(m, spec, parent) ==
    resolve_parsed(m, spec, parent, parse_bare_identifier(spec))

\* what the host callback find_pnp_manifest answers: Ok(Some(manifest)),
\* Ok(None) or Err(_)
HostAnswers == {"manifest", "none", "error"}

\* resolve_to_unqualified that parses the specifier before it asks the host
resolve_to_unqualified_parse_first(spec, parent, host, m) ==
    IF parse_bare_identifier(spec).kind = "BadSpecifier" THEN parse_bare_identifier(spec)
    ELSE IF host = "error" THEN FailedManifestHydration
    ELSE IF host = "manifest" THEN resolve_to_unqualified_via_manifest(m, spec, parent)
    ELSE Skipped

resolve_to_unqualified(spec, parent, host, m) ==
    IF host = "error" THEN FailedManifestHydration
    ELSE IF host = "manifest" THEN resolve_to_unqualified_via_manifest(m, spec, parent)
    ELSE Skipped

(***************************************************************************)
(* Specification of the resolution engine.  A manifest is deserialised,    *)
(* init_pnp_manifest prepares it, and resolve_to_unqualified is called     *)
(* with a host callback that answers with that manifest, with None or with *)
(* an error.                                                               *)
(*                                                                         *)
(* The manifests: a project at /r with the top-level package at /r, the    *)
(* package a@1 at /r/a and the package b@1 nested in it at /r/a/b.  The    *)
(* reference 2 names no package of the registry.                           *)
(***************************************************************************)
Str_a == <<"a">>
Str_b == <<"b">>
Ref1 == <<"1">>
Ref2 == <<"2">>
TopLevel == Locator(<<>>, <<>>)
PackageA == Locator(Str_a, Ref1)
PackageB == Locator(Str_b, Ref1)

ManifestPath == <<"/", "r", "/", ".", "p", "n", "p", ".", "c", "j", "s">>

\* what a dependency table or the fallback pool can hold for one name
DependencyValues == {NoneDependency, Reference(Ref1), Reference(Ref2), Alias(Str_b, Ref1)}

\* the dependency tables of the top-level package, of a@1, and the declared
\* fallbackPool
TopLevelDependencies == {EmptyMap} \cup {Str_a :> v : v \in DependencyValues}
PackageADependencies == {EmptyMap, Str_b :> Reference(Ref1)}
DeclaredFallbackPools == {EmptyMap} \cup {Str_a :> v : v \in DependencyValues}

\* fallbackExclusionList: name -> references, for a set of locators
ExclusionList(locators) ==
    [name \in {l.name : l \in locators} |-> {l.reference : l \in {x \in locators : x.name = name}}]

IgnorePatterns == {NoRegex, RegexDef(<<"a", "/", "b", "/">>)}

Registry(top_deps, a_deps) ==
    (<<>> :> (<<>> :> PackageInformation(<<".", "/">>, FALSE, top_deps)))
    @@ (Str_a :> (Ref1 :> PackageInformation(<<".", "/", "a", "/">>, FALSE, a_deps)))
    @@ (Str_b :> (Ref1 :> PackageInformation(<<".", "/", "a", "/", "b", "/">>, FALSE, EmptyMap)))

\* a Manifest as serde leaves it: the skipped fields hold their defaults
DeserializedManifest(enable, ignore, pool, exclusion, registry) ==
    [manifest_dir |-> <<>>,
     manifest_path |-> <<>>,
     location_trie |-> EmptyMap,
     enable_top_level_fallback |-> enable,
     ignore_pattern_data |-> ignore,
     dependency_tree_roots |-> {TopLevel},
     fallback_pool |-> pool,
     fallback_exclusion_list |-> exclusion,
     package_registry_data |-> registry]

Manifests ==
    {DeserializedManifest(enable, ignore, pool, ExclusionList(excluded), Registry(top_deps, a_deps)) :
        enable \in BOOLEAN, ignore \in IgnorePatterns, pool \in DeclaredFallbackPools,
        excluded \in SUBSET {TopLevel, PackageA},
        top_deps \in TopLevelDependencies, a_deps \in PackageADependencies}

\* the issuer paths: in the top-level package, in a@1, in b@1, outside the
\* project, and in the top-level package through a ".."
Parents ==
    {<<"/", "r", "/", "f">>,
     <<"/", "r", "/", "a", "/", "f">>,
     <<"/", "r", "/", "a", "/", "b", "/", "f">>,
     <<"/", "o", "/", "f">>,
     <<"/", "r", "/", "a", "/", ".", ".", "/", "f">>}

\* the specifiers: a, a/x, b, the builtin fs, and the malformed @s
Specifiers ==
    {<<"a">>, <<"a", "/", "x">>, <<"b">>, <<"f", "s">>, <<"@", "s">>}

NoManifest == [manifest_path |-> Unset]
NoRequest == [specifier |-> Unset, parent |-> Unset, host |-> "none"]
NoResolution == [kind |-> "None"]

IdleResolve == manifest = NoManifest /\ request = NoRequest /\ resolution = NoResolution

InitResolve ==
    /\ manifest \in Manifests
    /\ request = NoRequest
    /\ resolution = NoResolution
    /\ IdleNorm
    /\ IdleParse
    /\ IdleFs
    /\ IdleLater

\* init_pnp_manifest(&mut manifest, "/r/.pnp.cjs")
InitPnpManifest ==
    /\ manifest.manifest_path = <<>>
    /\ \E order \in iteration_orders(manifest) :
           manifest' = init_pnp_manifest(manifest, ManifestPath, order)
    /\ UNCHANGED <<request, resolution, normVars, parseVars, fsVars, laterVars>>

\* resolve_to_unqualified(specifier, parent, config)
ResolveToUnqualified ==
    /\ manifest.manifest_path # <<>>
    /\ resolution = NoResolution
    /\ \E spec \in Specifiers, parent \in Parents, host \in HostAnswers :
           /\ request' = [specifier |-> spec, parent |-> parent, host |-> host]
           /\ resolution' = resolve_to_unqualified(spec, parent, host, manifest)
    /\ UNCHANGED <<manifest, normVars, parseVars, fsVars, laterVars>>

NextResolve == InitPnpManifest \/ ResolveToUnqualified

SpecResolve == InitResolve /\ [][NextResolve]_vars

(***************************************************************************)
(* Specification of normalize_path: the argument is drawn from the strings *)
(* over the two separators, the dot and an ordinary character.             *)
(***************************************************************************)
PathAlphabet == {"/", "\\", ".", "a"}


InitNorm ==
    /\ original \in Strings(PathAlphabet, MaxPathLen)
    /\ normalized = Unset
    /\ renormalized = Unset
    /\ IdleParse
    /\ IdleResolve
    /\ IdleFs
    /\ IdleLater

\* a call normalize_path(original)
Normalize ==
    /\ normalized = Unset
    /\ normalized' = normalize_path(original)
    /\ UNCHANGED <<original, renormalized, parseVars, resolveVars, fsVars, laterVars>>

\* a call of normalize_path on the result of the first call
Renormalize ==
    /\ normalized # Unset
    /\ renormalized = Unset
    /\ renormalized' = normalize_path(normalized)
    /\ UNCHANGED <<original, normalized, parseVars, resolveVars, fsVars, laterVars>>

NextNorm == Normalize \/ Renormalize

SpecNorm == InitNorm /\ [][NextNorm]_vars

(***************************************************************************)
(* Specification of parse_bare_identifier.                                 *)
(***************************************************************************)
SpecAlphabet == {"@", "/", "a"}

InitParse ==
    /\ specifier \in Strings(SpecAlphabet, MaxSpecLen)
    /\ parsed = BadSpecifier(Unset)
    /\ IdleNorm
    /\ IdleResolve
    /\ IdleFs
    /\ IdleLater

\* a call parse_bare_identifier(specifier)
ParseBareIdentifier ==
    /\ parsed.specifier = Unset
    /\ parsed' = parse_bare_identifier(specifier)
    /\ UNCHANGED <<specifier, normVars, resolveVars, fsVars, laterVars>>

NextParse == ParseBareIdentifier

SpecParse == InitParse /\ [][NextParse]_vars

(***************************************************************************)
(* Claims about normalize_path, checked under SpecNorm.                    *)
(***************************************************************************)
\* what the walk is specified to leave, computed by rewriting instead of a
\* stack: drop "" and ".", cancel every (ordinary, "..") pair, and for a rooted
\* path drop the ".." that are left at the front
IsDotDot(c) == c = <<".", ".">>

CancelPairs(comps) ==
    LET RECURSIVE go(_)
        go(cs) ==
            LET hits == {i \in 1..(Len(cs) - 1) : ~IsDotDot(cs[i]) /\ IsDotDot(cs[i + 1])}
            IN  IF hits = {} THEN cs
                ELSE LET i == CHOOSE h \in hits : \A g \in hits : h <= g
                     IN  go(SubSeq(cs, 1, i - 1) \o SubSeq(cs, i + 2, Len(cs)))
    IN go(comps)

DropLeadingDotDot(comps) ==
    LET RECURSIVE go(_)
        go(cs) == IF cs # <<>> /\ IsDotDot(cs[1]) THEN go(Tail(cs)) ELSE cs
    IN go(comps)

ExpectedComponents(orig) ==
    LET rooted == orig # <<>> /\ orig[1] = "/"
        body == IF rooted THEN Tail(orig) ELSE orig
        kept == SelectSeq(split(body, {"/", "\\"}), LAMBDA c : c # <<>> /\ c # <<".">>)
    IN  IF rooted THEN DropLeadingDotDot(CancelPairs(kept)) ELSE CancelPairs(kept)

\* the components of a result: the text between its '/', without the root
\* '/' and the trailing '/'
ResultComponents(str) ==
    LET unrooted == IF starts_with(str, <<"/">>) THEN Tail(str) ELSE str
        body == IF ends_with(unrooted, <<"/">>)
                THEN SubSeq(unrooted, 1, Len(unrooted) - 1) ELSE unrooted
    IN  split(body, {"/"})

\* C8: normalize_path is idempotent: normalising its own result changes nothing
C8_NormalizeIdempotent ==
    renormalized # Unset => renormalized = normalized

\* C8 witness: an input that normalisation changed, to a path of two or more
\* components, has been normalised twice
C8_Witness ==
    /\ renormalized # Unset
    /\ normalized # original
    /\ Len(ResultComponents(normalized)) >= 2
    /\ \E i \in 1..Len(original) : original[i] = "\\"

\* C9: when the walk leaves a component, the result ends with '/' iff the
\* input ended with '/' or '\'
C9_TrailingSlashIffSeparator ==
    (normalized # Unset /\ ExpectedComponents(original) # <<>>)
        => (ends_with(normalized, <<"/">>)
            <=> (ends_with(original, <<"/">>) \/ ends_with(original, <<"\\">>)))

\* C10: the result's components are the input's without "" and ".", with
\* every ".." resolved against the ordinary component before it; a rooted
\* result holds no "..", a relative one holds ".." only at its front; an input
\* that leaves no component gives "/" when rooted and "." otherwise
C10_WalkResolvesDotDot ==
    normalized # Unset =>
        LET rooted == starts_with(original, <<"/">>)
            expected == ExpectedComponents(original)
            got == ResultComponents(normalized)
        IN  /\ expected = <<>> => normalized = (IF rooted THEN <<"/">> ELSE <<".">>)
            /\ expected # <<>> =>
                /\ got = expected
                /\ starts_with(normalized, <<"/">>) <=> rooted
                /\ \A i \in 1..Len(got) : got[i] # <<>> /\ got[i] # <<".">>
                /\ rooted => \A i \in 1..Len(got) : ~IsDotDot(got[i])
                /\ \A i \in 1..Len(got) :
                       IsDotDot(got[i]) => \A j \in 1..i : IsDotDot(got[j])

\* C10 witness: a rooted input that starts with a ".." at the root has been
\* normalised to the one component after it
C10_Witness ==
    /\ normalized # Unset
    /\ starts_with(original, <<"/", ".", ".", "/">>)
    /\ Len(ExpectedComponents(original)) = 1
    /\ normalized = <<"/", "a">>

(***************************************************************************)
(* Claims about parse_bare_identifier, checked under SpecParse.            *)
(***************************************************************************)
\* the position of the n-th '/' of s, or 0 when s has fewer
NthSlash(s, n) ==
    LET slashes == {i \in 1..Len(s) : s[i] = "/"}
    IN  IF Cardinality(slashes) < n THEN 0
        ELSE CHOOSE i \in slashes : Cardinality({j \in slashes : j < i}) = n - 1

\* C6: the name is the text before the first '/' (the second for a scoped
\* specifier) and the subpath the text after it, or None without such a '/';
\* the parse fails exactly for a scoped specifier with no '/'
C6_ParseBareIdentifier ==
    parsed.specifier # Unset =>
        LET s == specifier
            scoped == s # <<>> /\ s[1] = "@"
            cut == NthSlash(s, IF scoped THEN 2 ELSE 1)
        IN  /\ parsed.kind = "BadSpecifier" <=> (scoped /\ NthSlash(s, 1) = 0)
            /\ parsed.kind = "Ok" =>
                /\ parsed.name = (IF cut = 0 THEN s ELSE SubSeq(s, 1, cut - 1))
                /\ parsed.subpath = (IF cut = 0 THEN NoSubpath ELSE SubSeq(s, cut + 1, Len(s)))
                /\ \/ parsed.subpath = NoSubpath /\ s = parsed.name
                   \/ parsed.subpath # NoSubpath /\ s = parsed.name \o <<"/">> \o parsed.subpath

\* C6 witness: a scoped specifier with a subpath has been parsed
C6_Witness ==
    /\ parsed.kind = "Ok"
    /\ starts_with(specifier, <<"@">>)
    /\ parsed.subpath # NoSubpath
    /\ parsed.subpath # <<>>
    /\ Len(parsed.name) >= 4

(***************************************************************************)
(* Claims about resolve_to_unqualified, checked under SpecResolve.         *)
(***************************************************************************)
\* a call has returned; the host answered it with the manifest
Called == resolution # NoResolution
Answered == Called /\ request.host = "manifest"

\* a specifier parse_bare_identifier rejects: scoped, without a '/'
Malformed(spec) == starts_with(spec, <<"@">>) /\ NthSlash(spec, 1) = 0

\* the text of a specifier before its first '/' (its second when scoped)
PackageNameOf(spec) ==
    LET cut == NthSlash(spec, IF starts_with(spec, <<"@">>) THEN 2 ELSE 1)
    IN  IF cut = 0 THEN spec ELSE SubSeq(spec, 1, cut - 1)

\* the package name of the request, the issuer's locator, and whether the
\* issuer is a package of the registry
Ident == parse_bare_identifier(request.specifier).name
Issuer == find_locator(manifest, request.parent)
HasIssuer == Answered /\ ~Malformed(request.specifier) /\ Issuer \in registry_locators(manifest)
IssuerDependencies ==
    manifest.package_registry_data[Issuer.name][Issuer.reference].package_dependencies

\* the issuer is listed in fallback_exclusion_list
IssuerExcluded ==
    \E name \in DOMAIN manifest.fallback_exclusion_list :
        name = Issuer.name /\ Issuer.reference \in manifest.fallback_exclusion_list[name]

\* the locator a dependency names for the requested name, and the result of
\* resolving to it
TargetOf(dependency) ==
    IF dependency.tag = "Alias" THEN Locator(dependency.name, dependency.reference)
    ELSE Locator(Ident, dependency.reference)
Registered(locator) == locator \in registry_locators(manifest)
ResolvedTo(locator) ==
    Resolved(manifest.package_registry_data[locator.name][locator.reference].package_location,
             parse_bare_identifier(request.specifier).subpath)

\* the issuer's own table binds the requested name to a Reference or an Alias
OwnDependency ==
    /\ HasIssuer
    /\ Ident \in DOMAIN IssuerDependencies
    /\ IssuerDependencies[Ident].tag \in {"Reference", "Alias"}

\* C1: a name the issuer's package_dependencies maps to Reference(r) or
\* Alias(n, r) resolves to the location of the package (name, r) or (n, r) in
\* the registry, whatever fallback_pool, fallback_exclusion_list and
\* enable_top_level_fallback hold
C1_OwnDependencyResolves ==
    (OwnDependency /\ Registered(TargetOf(IssuerDependencies[Ident])))
        => resolution = ResolvedTo(TargetOf(IssuerDependencies[Ident]))

\* C1 witness: the issuer's own Alias has resolved while the enabled fallback
\* pool holds another package for the same name
C1_Witness ==
    /\ OwnDependency
    /\ IssuerDependencies[Ident] = Alias(Str_b, Ref1)
    /\ manifest.enable_top_level_fallback
    /\ ~IssuerExcluded
    /\ manifest.fallback_pool[Ident] = Reference(Ref1)
    /\ resolution.kind = "Resolved"
    /\ resolution.path = <<"/", "r", "/", "a", "/", "b", "/">>
    /\ resolution.subpath = <<"x">>

\* C2: a name the issuer's package_dependencies holds with the value None
\* fails with MissingPeerDependency
C2_NonePeerIsMissingPeer ==
    (HasIssuer /\ Ident \in DOMAIN IssuerDependencies /\ IssuerDependencies[Ident] = NoneDependency)
        => resolution.kind = "MissingPeerDependency"

\* what the fallback pool's entry for the requested name resolves to
FallbackOutcome ==
    LET entry == manifest.fallback_pool[Ident]
    IN  IF entry = NoneDependency THEN "MissingPeerDependency"
        ELSE IF Registered(TargetOf(entry)) THEN "Resolved"
        ELSE "Panic"

\* C3: for a name absent from the issuer's package_dependencies the fallback
\* pool decides the result iff the fallback is enabled and the issuer is not
\* excluded; otherwise, and when the pool has no entry, the result is
\* UndeclaredDependency with the parsed name and the issuer's locator
C3_AbsentNameFallsBack ==
    (HasIssuer /\ Ident \notin DOMAIN IssuerDependencies) =>
        LET consulted == manifest.enable_top_level_fallback /\ ~IssuerExcluded
        IN  IF consulted /\ Ident \in DOMAIN manifest.fallback_pool
            THEN /\ resolution.kind = FallbackOutcome
                 /\ resolution.kind = "Resolved"
                        => resolution = ResolvedTo(TargetOf(manifest.fallback_pool[Ident]))
            ELSE /\ resolution.kind = "UndeclaredDependency"
                 /\ resolution.dependency_name = PackageNameOf(request.specifier)
                 /\ resolution.issuer_locator = Issuer

\* C3 witness: the issuer a@1 is excluded, the pool holds the name, and the
\* call has failed with UndeclaredDependency
C3_Witness ==
    /\ HasIssuer
    /\ Issuer = PackageA
    /\ Ident \notin DOMAIN IssuerDependencies
    /\ Ident \in DOMAIN manifest.fallback_pool
    /\ manifest.enable_top_level_fallback
    /\ IssuerExcluded
    /\ resolution.kind = "UndeclaredDependency"

\* C4 as stated: from the top-level package a name of fallback_pool resolves
\* iff the issuer is not excluded and the fallback is enabled
C4_FallbackIffEnabled ==
    (HasIssuer /\ Issuer = TopLevel /\ Ident \in DOMAIN manifest.fallback_pool)
        => (resolution.kind = "Resolved"
            <=> (~IssuerExcluded /\ manifest.enable_top_level_fallback))

\* C4 amended: from the top-level package a name of fallback_pool resolves
\* iff its own dependency names a registered package, or it has no own
\* dependency, the fallback is enabled, the issuer is not excluded and the
\* pool entry names a registered package
C4_FallbackOrOwn ==
    (HasIssuer /\ Issuer = TopLevel /\ Ident \in DOMAIN manifest.fallback_pool)
        => (resolution.kind = "Resolved"
            <=> IF OwnDependency
                THEN Registered(TargetOf(IssuerDependencies[Ident]))
                ELSE /\ manifest.enable_top_level_fallback
                     /\ ~IssuerExcluded
                     /\ manifest.fallback_pool[Ident] # NoneDependency
                     /\ Registered(TargetOf(manifest.fallback_pool[Ident])))

\* C4 witness: the top-level package declares nothing and the name has
\* resolved through the declared fallback pool
C4_Witness ==
    /\ HasIssuer
    /\ Issuer = TopLevel
    /\ IssuerDependencies = EmptyMap
    /\ Ident \in DOMAIN manifest.fallback_pool
    /\ resolution.kind = "Resolved"

\* the ignore pattern matches the issuer path taken relative to manifest_dir
IgnoreMatches ==
    /\ manifest.ignore_pattern_data # NoRegex
    /\ is_match(manifest.ignore_pattern_data,
                normalize_path(diff_paths(request.parent, manifest.manifest_dir)))

\* a key of location_trie is an ancestor of the issuer path
HasAncestor ==
    \E key \in DOMAIN manifest.location_trie :
        LET path == normalize_path(request.parent)
        IN  starts_with(IF ends_with(path, <<"/">>) THEN path ELSE Append(path, "/"), key)

\* C5: a well-formed specifier gives Skipped when the host returns no
\* manifest, when the ignore pattern matches the relative issuer path, and
\* when no key of location_trie is an ancestor of the issuer path
C5_SoftMissesSkip ==
    (Called /\ ~Malformed(request.specifier)
        /\ (request.host = "none"
            \/ (request.host = "manifest" /\ (IgnoreMatches \/ ~HasAncestor))))
        => resolution = Skipped

\* C5 witness: an issuer inside a package of the trie has been skipped
\* because the ignore pattern matches it
C5_Witness ==
    /\ Answered
    /\ ~Malformed(request.specifier)
    /\ IgnoreMatches
    /\ HasAncestor
    /\ resolution = Skipped

\* C7: a malformed specifier gives Skipped when the host returns no manifest
\* and BadSpecifier when it returns one, also for an ignored issuer and for
\* an issuer outside every package
C7_HostThenParseThenLocate ==
    (Called /\ Malformed(request.specifier)) =>
        /\ request.host = "none" => resolution = Skipped
        /\ request.host = "manifest" =>
               /\ resolution.kind = "BadSpecifier"
               /\ resolution.specifier = request.specifier

\* C7 witness: a malformed specifier from an issuer outside every package
\* has failed with BadSpecifier
C7_Witness ==
    /\ Answered
    /\ Malformed(request.specifier)
    /\ ~HasAncestor
    /\ resolution.kind = "BadSpecifier"

\* C30: with an initialized manifest and an absolute issuer path,
\* resolve_to_unqualified_via_manifest returns a Resolution or a typed Error:
\* no lookup of get_package aborts, not even for a dependency that names a
\* (name, reference) absent from package_registry_data.
C30_GetPackageNeverAborts ==
    Answered => resolution.kind # "Panic"

(***************************************************************************)
(* src/src/fs.rs: the virtual-path classifier (split_zip, split_virtual,   *)
(* vpath).  Offsets are the code's: byte i of a slice is element i + 1 of  *)
(* the sequence.                                                           *)
(***************************************************************************)
\* <[u8]>::get(i) of an index that is out of range
NoByte == "<none>"

\* <[u8]>::get(i); a negative i stands for the usize 2^64 + i that a wrapped
\* subtraction leaves, which is past the end of every slice
get(bytes, i) == IF 0 <= i /\ i < Len(bytes) THEN bytes[i + 1] ELSE NoByte

\* &bytes[from..to]
slice(bytes, from, to) == SubSeq(bytes, from + 1, to)

\* Regex::find_at for a literal pattern: the start of the first match at or
\* after offset, or -1
NoMatch == -1
find_at(bytes, pattern, offset) ==
    LET RECURSIVE go(_)
        go(i) ==
            IF i + Len(pattern) > Len(bytes) THEN NoMatch
            ELSE IF slice(bytes, i, i + Len(pattern)) = pattern THEN i
            ELSE go(i + 1)
    IN go(offset)

\* the pattern of ZIP_RE
ZIP_RE == <<".", "z", "i", "p">>

\* Option<&[u8]>::None of the part after the zip boundary
NoZipPath == <<"<none>">>

\* split_zip_match that cuts the archive path before the ".zip" it found
split_zip_cut_before_extension(p_bytes, idx) ==
    [archive_path |-> slice(p_bytes, 0, idx),
     zip_path |-> slice(p_bytes, idx + Len(ZIP_RE) + 1, Len(p_bytes))]

\* the return of split_zip for the match at idx it does not skip:
\* zip_path = &p_bytes[0..next_char_idx], sub_path = p_bytes.get(next_char_idx + 1..)
split_zip_match(p_bytes, idx) ==
    [archive_path |-> slice(p_bytes, 0, idx + Len(ZIP_RE)),
     zip_path |-> slice(p_bytes, idx + Len(ZIP_RE) + 1, Len(p_bytes))]

\* the loop of split_zip from search_offset, and its body for the answer idx
\* of find_at: a ".zip" at offset 0, right after a '/', or not right before
\* a '/' is skipped
RECURSIVE split_zip_from(_, _)
split_zip_found(p_bytes, idx) ==
    IF idx = NoMatch THEN [archive_path |-> p_bytes, zip_path |-> NoZipPath]
    ELSE IF idx = 0 \/ get(p_bytes, idx - 1) = "/" \/ get(p_bytes, idx + Len(ZIP_RE)) # "/"
    THEN split_zip_from(p_bytes, idx + Len(ZIP_RE))
    ELSE split_zip_match(p_bytes, idx)

split_zip_from(p_bytes, search_offset) ==
    IF search_offset < Len(p_bytes)
    THEN split_zip_found(p_bytes, find_at(p_bytes, ZIP_RE, search_offset))
    ELSE [archive_path |-> p_bytes, zip_path |-> NoZipPath]

split_zip(p_bytes) == split_zip_from(p_bytes, 0)

\* the character classes [a-f0-9] and [0-9] of VIRTUAL_RE
HexDigits == {"a", "b", "c", "d", "e", "f", "0", "1", "2", "3", "4", "5", "6", "7", "8", "9"}
Digits == {"0", "1", "2", "3", "4", "5", "6", "7", "8", "9"}

\* the two markers of VIRTUAL_RE
VirtualMarkers ==
    {<<"$", "$", "v", "i", "r", "t", "u", "a", "l">>,
     <<"_", "_", "v", "i", "r", "t", "u", "a", "l", "_", "_">>}

\* the offset of the first '/' at or after offset, or the length of the slice
next_slash(bytes, offset) ==
    IF find_at(bytes, <<"/">>, offset) = NoMatch THEN Len(bytes)
    ELSE find_at(bytes, <<"/">>, offset)

\* "(?:[^/]+)-[a-f0-9]+" against a whole segment: some '-' has text before
\* it and only hexadecimal digits, at least one, after it
is_hash_segment(seg) ==
    \E i \in 2..(Len(seg) - 1) :
        /\ seg[i] = "-"
        /\ \A j \in (i + 1)..Len(seg) : seg[j] \in HexDigits

\* "[0-9]+" against a whole segment
is_depth_segment(seg) == seg # <<>> /\ \A j \in 1..Len(seg) : seg[j] \in Digits

\* str::parse::<usize> of a run of digits
parse_usize(digits) ==
    LET RECURSIVE go(_, _)
        go(i, n) ==
            IF i > Len(digits) THEN n
            ELSE go(i + 1, 10 * n + (CHOOSE d \in 0..9 : ToString(d) = digits[i]))
    IN go(1, 0)

\* Option::None of the virtual part
NoVirtual == [len |-> -1, depth |-> -1]

\* group 1 of VIRTUAL_RE from the end of the marker segment: the hash
\* segment is bytes[hash_start..hash_end], the depth segment runs to depth_end
virtual_match_segments(bytes, start, hash_start, hash_end, depth_end) ==
    IF /\ hash_end < Len(bytes)
       /\ is_hash_segment(slice(bytes, hash_start, hash_end))
       /\ depth_end < Len(bytes)
       /\ is_depth_segment(slice(bytes, hash_end + 1, depth_end))
    THEN [len |-> depth_end + 1 - start,
          depth |-> parse_usize(slice(bytes, hash_end + 1, depth_end))]
    ELSE NoVirtual

virtual_match_hash(bytes, start, hash_start, hash_end) ==
    virtual_match_segments(bytes, start, hash_start, hash_end, next_slash(bytes, hash_end + 1))

\* group 1 of VIRTUAL_RE matched at offset start: a marker, "/", the hash
\* segment, "/", the depth segment, "/"
virtual_match_at(bytes, start) ==
    IF \E marker \in VirtualMarkers :
           starts_with(slice(bytes, start, Len(bytes)), marker \o <<"/">>)
    THEN virtual_match_hash(bytes, start, next_slash(bytes, start) + 1,
                            next_slash(bytes, next_slash(bytes, start) + 1))
    ELSE NoVirtual

\* split_virtual: the leftmost match of VIRTUAL_RE, its group 1 starting at
\* offset 0 or right after a '/'; (p_bytes.len(), None) when there is none
RECURSIVE split_virtual_from(_, _)
split_virtual_found(p_bytes, start, found) ==
    IF found # NoVirtual THEN [base_path_len |-> start, virtual |-> found]
    ELSE split_virtual_from(p_bytes, start + 1)

split_virtual_from(p_bytes, start) ==
    IF start >= Len(p_bytes) THEN [base_path_len |-> Len(p_bytes), virtual |-> NoVirtual]
    ELSE IF start = 0 \/ get(p_bytes, start - 1) = "/"
    THEN split_virtual_found(p_bytes, start, virtual_match_at(p_bytes, start))
    ELSE split_virtual_from(p_bytes, start + 1)

split_virtual(p_bytes) == split_virtual_from(p_bytes, 0)

\* the results of vpath: the three shapes of VPath, the io::Error, and the
\* abort of an arithmetic overflow in a build with overflow checks
NoSegments == <<(<<"<none>">>), (<<"<none>">>)>>
ZipInfo(base_path, virtual_segments, zip_path) ==
    [kind |-> "Zip", base_path |-> base_path, virtual_segments |-> virtual_segments,
     zip_path |-> zip_path]
VirtualInfo(base_path, virtual_segments) ==
    [kind |-> "Virtual", base_path |-> base_path, virtual_segments |-> virtual_segments]
Native(p) == [kind |-> "Native", path |-> p]
InvalidBackReference == [kind |-> "Err", message |-> "Invalid virtual back-reference"]
SubtractOverflow == [kind |-> "Panic", message |-> "attempt to subtract with overflow"]

\* the loop variables of the back-reference walk
Walk(base_path_len, virtual_len) ==
    [base_path_len |-> base_path_len, virtual_len |-> virtual_len, overflowed |-> FALSE]
Overflowed(w) == [w EXCEPT !.overflowed = TRUE]

\* "while let Some(c) = archive_path_u8.get(base_path_len - 1)": back to the
\* previous '/'.  base_path_len - 1 overflows at 0: an abort under overflow
\* checks, else the wrapped index, past the end of the slice
RECURSIVE back_to_slash(_, _, _)
back_to_slash(archive_path_u8, w, overflow_checks) ==
    IF w.base_path_len = 0 /\ overflow_checks THEN Overflowed(w)
    ELSE IF get(archive_path_u8, w.base_path_len - 1) \in {NoByte, "/"} THEN w
    ELSE back_to_slash(archive_path_u8,
                       Walk(w.base_path_len - 1, w.virtual_len + 1), overflow_checks)

\* "for _ in 0..parent_depth": left iterations to go
RECURSIVE back_reference(_, _, _, _)
back_reference(archive_path_u8, w, left, overflow_checks) ==
    IF left = 0 \/ w.overflowed \/ w.base_path_len = 1 THEN w
    ELSE IF w.base_path_len = 0 /\ overflow_checks THEN Overflowed(w)
    ELSE back_reference(archive_path_u8,
                        back_to_slash(archive_path_u8,
                                      Walk(w.base_path_len - 1, w.virtual_len + 1),
                                      overflow_checks),
                        left - 1, overflow_checks)

\* base_path_u8 without the trimming of its trailing slash
base_path_untrimmed(archive_path_u8, base_path_len) ==
    slice(archive_path_u8, 0, base_path_len)

\* base_path_u8: &base_path_u8[0..base_path_len], its trailing slash trimmed
\* unless it is the only byte
base_path(archive_path_u8, base_path_len) ==
    IF base_path_len > 1 THEN slice(archive_path_u8, 0, base_path_len - 1)
    ELSE slice(archive_path_u8, 0, base_path_len)

\* the end of vpath: Zip when split_zip found a zip path, else Virtual
vpath_result(base, virtual_segments, zip_path_u8) ==
    IF zip_path_u8 # NoZipPath THEN ZipInfo(base, virtual_segments, zip_path_u8)
    ELSE VirtualInfo(base, virtual_segments)

\* vpath after the back-reference walk: the check of the byte before
\* base_path_len, then the segments
vpath_walked(archive_path_u8, zip_path_u8, w, overflow_checks) ==
    IF w.overflowed \/ (w.base_path_len = 0 /\ overflow_checks) THEN SubtractOverflow
    ELSE IF get(archive_path_u8, w.base_path_len - 1) # "/" THEN InvalidBackReference
    ELSE vpath_result(base_path(archive_path_u8, w.base_path_len),
                      <<slice(archive_path_u8, w.base_path_len, Len(archive_path_u8)),
                        slice(archive_path_u8, w.base_path_len + w.virtual_len,
                              Len(archive_path_u8))>>,
                      zip_path_u8)

\* vpath after split_virtual
vpath_virtual(p_str, archive_path_u8, zip_path_u8, v, overflow_checks) ==
    IF v.virtual # NoVirtual
    THEN vpath_walked(archive_path_u8, zip_path_u8,
                      back_reference(archive_path_u8,
                                     Walk(v.base_path_len, v.virtual.len),
                                     v.virtual.depth, overflow_checks),
                      overflow_checks)
    ELSE IF zip_path_u8 = NoZipPath THEN Native(p_str)
    ELSE vpath_result(archive_path_u8, NoSegments, zip_path_u8)

\* vpath after split_zip
vpath_split(p_str, z, overflow_checks) ==
    vpath_virtual(p_str, z.archive_path, z.zip_path, split_virtual(z.archive_path),
                  overflow_checks)

\* vpath, from the normalized p_str on
vpath_normalized(p_str, overflow_checks) ==
    vpath_split(p_str, split_zip(p_str), overflow_checks)

\* vpath (VPath::from); arca::path::normalize_path is the function util.rs
\* holds as normalize_path
vpath(p, overflow_checks) == vpath_normalized(normalize_path(p), overflow_checks)

(***************************************************************************)
(* Specification of the classifier.  A path is given to vpath, in a build  *)
(* with or without overflow checks.  The paths are made of whole segments: *)
(* plain segments, then a virtual part (complete or cut short, well-formed *)
(* or not), then plain segments again.                                     *)
(***************************************************************************)
\* a directory name, an archive name and a bare ".zip"
PlainSegments == {<<"a">>, <<"b", ".", "z", "i", "p">>, <<".", "z", "i", "p">>}

\* hash segments: well-formed, with a character outside [a-f0-9] after the
\* '-', and with nothing before the '-'
HashSegments == {<<"h", "-", "a">>, <<"h", "-", "g">>, <<"-", "a">>}

\* depth segments: three depths and a segment that is no number
DepthSegments == {<<"0">>, <<"1">>, <<"2">>, <<"a">>}

\* no virtual part, a marker alone, a marker and a hash, or all three
VirtualParts ==
    {<<>>}
    \cup {<<marker>> : marker \in VirtualMarkers}
    \cup {<<marker, hash>> : marker \in VirtualMarkers, hash \in HashSegments}
    \cup {<<marker, hash, depth>> :
             marker \in VirtualMarkers, hash \in HashSegments, depth \in DepthSegments}

\* up to MaxSegments plain segments
PlainParts == UNION {[1..k -> PlainSegments] : k \in 0..MaxSegments}

\* the paths: absolute or relative, with or without a trailing '/'
VPathInputs ==
    {lead \o join(before \o virtual \o after, <<"/">>) \o trail :
        lead \in {<<>>, <<"/">>}, trail \in {<<>>, <<"/">>},
        before \in PlainParts, virtual \in VirtualParts, after \in PlainParts}

InitVPath ==
    /\ vpath_p \in VPathInputs
    /\ classified = NoVPath
    /\ IdleNorm
    /\ IdleParse
    /\ IdleResolve
    /\ IdleZip
    /\ IdleLater

\* VPath::from(p)
Classify ==
    /\ classified = NoVPath
    /\ \E overflow_checks \in BOOLEAN : classified' = vpath(vpath_p, overflow_checks)
    /\ UNCHANGED <<vpath_p, normVars, parseVars, resolveVars, zipVars, laterVars>>

NextVPath == Classify

SpecVPath == InitVPath /\ [][NextVPath]_vars

(***************************************************************************)
(* Claims about the classifier, under SpecVPath.                           *)
(***************************************************************************)
\* vpath has returned
Classified == classified # NoVPath

\* normalize(p), the text the claims speak of
NormalizedP == normalize_path(vpath_p)

\* the offsets of the zip boundaries of a text: a ".zip" not at offset 0, not
\* right after a '/', followed by a '/' and at least one more character
ZipBoundaries(text) ==
    {i \in 1..(Len(text) - 6) :
        /\ SubSeq(text, i + 1, i + 4) = <<".", "z", "i", "p">>
        /\ text[i] # "/"
        /\ text[i + 5] = "/"}

\* the least element of a non-empty set of offsets
FirstOf(offsets) == CHOOSE i \in offsets : \A j \in offsets : i <= j

\* C11: classify(p) is a Zip iff normalize(p) has a zip boundary (".zip" not
\* at position 0, not right after '/', followed by '/' and at least one more
\* character); the split is made at the first boundary, zip_path is the text
\* after its '/', and zip_path is never empty.
C11_ZipIffBoundary ==
    Classified =>
        /\ classified.kind = "Zip" <=> ZipBoundaries(NormalizedP) # {}
        /\ classified.kind = "Zip" =>
              /\ classified.zip_path # <<>>
              /\ classified.zip_path =
                    SubSeq(NormalizedP, FirstOf(ZipBoundaries(NormalizedP)) + 6, Len(NormalizedP))

\* C12 as stated: every Zip that classify returns, with or without
\* virtual_segments, has a base_path that ends in ".zip".
C12_ZipBasePathEndsInZip ==
    (Classified /\ classified.kind = "Zip")
        => ends_with(classified.base_path, <<".", "z", "i", "p">>)

\* C12 amended: a Zip without virtual_segments has a base_path that ends in
\* ".zip"; a Zip with virtual_segments has both segments ending in ".zip",
\* its base_path being the part of the path before them.
C12_ZipArchiveEndsInZip ==
    (Classified /\ classified.kind = "Zip")
        => IF classified.virtual_segments = NoSegments
           THEN ends_with(classified.base_path, <<".", "z", "i", "p">>)
           ELSE /\ ends_with(classified.virtual_segments[1], <<".", "z", "i", "p">>)
                /\ ends_with(classified.virtual_segments[2], <<".", "z", "i", "p">>)

\* a Zip with virtual_segments has been returned
C12_Witness ==
    Classified /\ classified.kind = "Zip" /\ classified.virtual_segments # NoSegments

\* hash: non-empty text, '-', one or more characters of [a-f0-9]
IsHash(text) ==
    \E k \in 2..(Len(text) - 1) :
        /\ text[k] = "-"
        /\ \A j \in 1..(k - 1) : text[j] # "/"
        /\ \A j \in (k + 1)..Len(text) :
               text[j] \in {"a", "b", "c", "d", "e", "f",
                            "0", "1", "2", "3", "4", "5", "6", "7", "8", "9"}

\* depth: one or more decimal digits
IsDepth(text) ==
    /\ text # <<>>
    /\ \A j \in 1..Len(text) :
           text[j] \in {"0", "1", "2", "3", "4", "5", "6", "7", "8", "9"}

\* the text has, at its start or right after a '/', a marker followed by
\* "/<hash>/<depth>/"
HasVirtualMarker(text) ==
    \E start \in 1..Len(text), hash_end \in 1..Len(text), depth_end \in 1..Len(text) :
        /\ start = 1 \/ text[start - 1] = "/"
        /\ \E marker \in {<<"_", "_", "v", "i", "r", "t", "u", "a", "l", "_", "_">>,
                          <<"$", "$", "v", "i", "r", "t", "u", "a", "l">>} :
               /\ start + Len(marker) < hash_end
               /\ SubSeq(text, start, start + Len(marker)) = marker \o <<"/">>
               /\ IsHash(SubSeq(text, start + Len(marker) + 1, hash_end - 1))
        /\ text[hash_end] = "/"
        /\ hash_end < depth_end
        /\ IsDepth(SubSeq(text, hash_end + 1, depth_end - 1))
        /\ text[depth_end] = "/"

\* C13: for a path with no zip boundary, classify returns Virtual iff the
\* normalized path has a well-formed marker ("__virtual__" or "$$virtual",
\* then "/<hash>/<depth>/") at its start or right after a '/'; for every
\* other path it returns Native(normalize(p)), and never an error.
C13_VirtualIffMarker ==
    (Classified /\ ZipBoundaries(NormalizedP) = {})
        => IF HasVirtualMarker(NormalizedP) THEN classified.kind = "Virtual"
           ELSE classified = Native(NormalizedP)

\* C14 as stated: for every Virtual that classify returns, base_path + '/' +
\* full is normalize(p), and resolved is a suffix of full.
C14_VirtualConcatenation ==
    (Classified /\ classified.kind = "Virtual")
        => /\ classified.base_path \o <<"/">> \o classified.virtual_segments[1] = NormalizedP
           /\ ends_with(classified.virtual_segments[1], classified.virtual_segments[2])

\* C14 amended: for every Virtual that classify returns, base_path + '/' +
\* full is normalize(p), or base_path + full when base_path is the root "/";
\* resolved is a suffix of full.
C14_VirtualConcatenationAtRoot ==
    (Classified /\ classified.kind = "Virtual")
        => /\ NormalizedP =
                 IF classified.base_path = <<"/">>
                 THEN classified.base_path \o classified.virtual_segments[1]
                 ELSE classified.base_path \o <<"/">> \o classified.virtual_segments[1]
           /\ ends_with(classified.virtual_segments[1], classified.virtual_segments[2])

\* a Virtual whose depth has removed a segment and left a base_path that is
\* not the root
C14_Witness ==
    /\ Classified
    /\ classified.kind = "Virtual"
    /\ classified.base_path = <<"/", "a">>
    /\ starts_with(classified.virtual_segments[1], <<"a", "/">>)

\* C15: classify is total on paths with a well-formed virtual marker: for
\* every depth, for relative and absolute paths, and for a marker at the very
\* start of the path, a VPath is returned, with no arithmetic underflow and
\* no "Invalid virtual back-reference" error.
C15_TotalOnMarkers ==
    (Classified /\ HasVirtualMarker(NormalizedP))
        => classified.kind \in {"Zip", "Virtual", "Native"}

(***************************************************************************)
(* src/src/zip.rs: Zip, and open_zip_via_read of src/src/fs.rs.  An        *)
(* archive is given by what its bytes hold: whether the end of central     *)
(* directory record is found, and the central file headers in their order, *)
(* each with its file name, its compression method, and what the bytes of  *)
(* its data are ("valid", "corrupt" for a Deflate stream that does not     *)
(* inflate, "past_end" for a data range that ends after the storage).      *)
(***************************************************************************)
CentralFileHeader(file_name, compression_method, data) ==
    [file_name |-> file_name, compression_method |-> compression_method, data |-> data]

Archive(end_of_central_directory, headers) ==
    [end_of_central_directory |-> end_of_central_directory, headers |-> headers]

\* the compression methods read_central_file_header accepts
STORE == 0
DEFLATE == 8

\* Entry, and Option<Entry>::None of a directory
Entry(compression, data) == [compression |-> compression, data |-> data]
NoEntry == [compression |-> "<none>", data |-> "<none>"]

\* the results of the zip functions
IoError(error_kind) == [kind |-> "Err", error_kind |-> error_kind]
BoxedError(message) == [kind |-> "Err", error_kind |-> "Box<dyn Error>", message |-> message]
ZipPanic(message) == [kind |-> "Panic", message |-> message]

\* read_central_file_header of one header: the unwrap() of the method match
\* aborts on a method other than 0 and 8; a name that ends in '/' has no Entry
read_central_file_header(header) ==
    IF header.compression_method \notin {STORE, DEFLATE}
    THEN ZipPanic("called Result::unwrap() on an Err value: Oh no")
    ELSE IF ends_with(header.file_name, <<"/">>)
    THEN [kind |-> "Ok", name |-> header.file_name, entry |-> NoEntry]
    ELSE [kind |-> "Ok", name |-> header.file_name,
          entry |-> Entry(IF header.compression_method = STORE THEN "Uncompressed" ELSE "Deflate",
                          header.data)]

\* HashMap::insert
map_insert(map, key, value) ==
    [k \in DOMAIN map \cup {key} |-> IF k = key THEN value ELSE map[k]]

\* the loop of list_zip_entries over the headers, from header i
RECURSIVE list_zip_entries_from(_, _, _)
list_zip_entries_read(headers, i, zip_entries, header_read) ==
    IF header_read.kind # "Ok" THEN header_read
    ELSE list_zip_entries_from(headers, i + 1, map_insert(zip_entries, header_read.name, header_read.entry))

list_zip_entries_from(headers, i, zip_entries) ==
    IF i > Len(headers) THEN [kind |-> "Ok", zip_entries |-> zip_entries]
    ELSE list_zip_entries_read(headers, i, zip_entries, read_central_file_header(headers[i]))

\* list_zip_entries
list_zip_entries(data) ==
    IF ~data.end_of_central_directory
    THEN BoxedError("End of central directory record not found.")
    ELSE list_zip_entries_from(data.headers, 1, EmptyMap)

\* the orders in which Zip::new can meet the entries of the HashMap
entry_orders(zip_entries) ==
    {order \in [1..Cardinality(DOMAIN zip_entries) -> DOMAIN zip_entries] :
        \A i, j \in 1..Cardinality(DOMAIN zip_entries) : i # j => order[i] # order[j]}

\* the directories Zip::new derives from a normalized name: the joins of
\* segments[0..t] for t in 1..segments.len() - 1, each with a '/' appended
parent_dirs(segments) ==
    {Append(join(SubSeq(segments, 1, t), <<"/">>), "/") : t \in 1..(Len(segments) - 2)}

\* the value Zip::new builds
ZipOf(files, dirs) == [kind |-> "Zip", files |-> files, dirs |-> dirs]

\* one iteration of the loop of Zip::new, for the normalized name
zip_new_entry(zip, name, maybe_entry) ==
    IF maybe_entry # NoEntry
    THEN ZipOf(map_insert(zip.files, name, maybe_entry),
               zip.dirs \cup parent_dirs(split(name, {"/"})))
    ELSE ZipOf(zip.files, zip.dirs \cup parent_dirs(split(name, {"/"})) \cup {name})

\* the loop of Zip::new, in the order it meets the entries
RECURSIVE zip_new_from(_, _, _, _)
zip_new_from(zip_entries, order, i, zip) ==
    IF i > Len(order) THEN zip
    ELSE zip_new_from(zip_entries, order, i + 1,
                      zip_new_entry(zip, normalize_path(order[i]), zip_entries[order[i]]))

\* Zip::new, given what list_zip_entries returned
zip_new_listed(listed, order) ==
    IF listed.kind # "Ok" THEN listed
    ELSE zip_new_from(listed.zip_entries, order, 1, ZipOf(EmptyMap, {}))

\* is_dir that looks the query up as it is
is_dir_exact(zip, p) == p \in zip.dirs

\* Zip::is_dir
is_dir(zip, p) ==
    IF ends_with(p, <<"/">>) THEN p \in zip.dirs
    ELSE Append(p, "/") \in zip.dirs

\* Zip::file_type
file_type(zip, p) ==
    IF is_dir(zip, p) THEN [kind |-> "Ok", file_type |-> "Directory"]
    ELSE IF p \in DOMAIN zip.files THEN [kind |-> "Ok", file_type |-> "File"]
    ELSE IoError("NotFound")

\* Zip::read of the entry found: the slice of the storage, then the bytes or
\* their inflation
read_entry(entry) ==
    IF entry.data = "past_end" THEN ZipPanic("range end index out of range for slice")
    ELSE IF entry.compression = "Deflate" /\ entry.data = "corrupt" THEN IoError("Other")
    ELSE [kind |-> "Ok", bytes |-> entry.data]

\* Zip::read
read(zip, p) ==
    IF p \notin DOMAIN zip.files THEN IoError("NotFound")
    ELSE read_entry(zip.files[p])

\* std::fs::read of a path with no readable file
NoFile == [end_of_central_directory |-> FALSE, headers |-> <<"<none>">>]

\* open_zip_via_read, given the order Zip::new meets the entries in: the
\* error of std::fs::read, or the error of Zip::new mapped to ErrorKind::Other
open_zip_via_read_listed(listed, order) ==
    IF listed.kind = "Err" THEN IoError("Other")
    ELSE zip_new_listed(listed, order)

open_zip_via_read(file, order) ==
    IF file = NoFile THEN IoError("NotFound")
    ELSE open_zip_via_read_listed(list_zip_entries(file), order)

\* the orders Zip::new can take for a file
open_orders(file) ==
    IF file = NoFile \/ list_zip_entries(file).kind # "Ok" THEN {<<>>}
    ELSE entry_orders(list_zip_entries(file).zip_entries)

(***************************************************************************)
(* SpecZip: a file is opened with open_zip_via_read, and the Zip it gives  *)
(* is asked for the file type and for the bytes of one name.               *)
(***************************************************************************)
\* the file names of the central file headers
EntryNames ==
    {<<"a">>, <<"a", "/">>, <<"a", "/", "b">>, <<"a", "/", "b", "/">>,
     <<"a", "/", "b", "/", "c">>, <<".", "/", "a">>}

\* a compression method read_central_file_header does not know (LZMA)
LZMA == 14

\* the compression method and the data of a central file header
EntryContents ==
    {<<STORE, "valid">>, <<STORE, "past_end">>, <<DEFLATE, "valid">>, <<DEFLATE, "corrupt">>,
     <<LZMA, "valid">>}

CentralFileHeaders ==
    {CentralFileHeader(file_name, content[1], content[2]) :
        file_name \in EntryNames, content \in EntryContents}

\* the files given to open_zip_via_read: no file, an archive with no end of
\* central directory record, the archives of at most MaxEntries headers
ZipFiles ==
    {NoFile, Archive(FALSE, <<>>)}
        \cup {Archive(TRUE, headers) :
                headers \in UNION {[1..n -> CentralFileHeaders] : n \in 0..MaxEntries}}

\* the names the Zip is asked for
ZipQueries ==
    {<<"a">>, <<"a", "/">>, <<"a", "/", "b">>, <<"a", "/", "b", "/">>,
     <<"a", "/", "b", "/", "c">>, <<"b">>}

InitZip ==
    /\ zip_file \in ZipFiles
    /\ zip_value = NoZip
    /\ zip_query = Unset
    /\ zip_file_type = NoAnswer
    /\ zip_read = NoAnswer
    /\ IdleNorm
    /\ IdleParse
    /\ IdleResolve
    /\ IdleVPath
    /\ IdleLater

\* open_zip_via_read(p) for the file at p
Open ==
    /\ zip_value = NoZip
    /\ \E order \in open_orders(zip_file) : zip_value' = open_zip_via_read(zip_file, order)
    /\ UNCHANGED <<zip_file, zip_query, zip_file_type, zip_read,
                   normVars, parseVars, resolveVars, vpathVars, laterVars>>

\* zip.file_type(q)
FileType ==
    /\ zip_value.kind = "Zip"
    /\ zip_file_type = NoAnswer
    /\ \E q \in ZipQueries :
        /\ zip_query \in {Unset, q}
        /\ zip_query' = q
        /\ zip_file_type' = file_type(zip_value, q)
    /\ UNCHANGED <<zip_file, zip_value, zip_read, normVars, parseVars, resolveVars, vpathVars, laterVars>>

\* zip.read(q)
Read ==
    /\ zip_value.kind = "Zip"
    /\ zip_read = NoAnswer
    /\ \E q \in ZipQueries :
        /\ zip_query \in {Unset, q}
        /\ zip_query' = q
        /\ zip_read' = read(zip_value, q)
    /\ UNCHANGED <<zip_file, zip_value, zip_file_type, normVars, parseVars, resolveVars, vpathVars, laterVars>>

NextZip == Open \/ FileType \/ Read

SpecZip == InitZip /\ [][NextZip]_vars

(***************************************************************************)
(* Claims about Zip, under SpecZip.                                        *)
(***************************************************************************)
\* the prefixes of a name that end at one of its '/'
SlashPrefixes(name) == {SubSeq(name, 1, i) : i \in {j \in 1..Len(name) : name[j] = "/"}}

\* C16: once Zip::new has returned a Zip, every prefix of every file name
\* that ends at a '/' (the immediate parent included) is an element of dirs,
\* and every element of dirs ends with '/'.
C16_DirsHoldEveryParent ==
    zip_value.kind = "Zip"
        => /\ \A name \in DOMAIN zip_value.files : SlashPrefixes(name) \subseteq zip_value.dirs
           /\ \A dir \in zip_value.dirs : ends_with(dir, <<"/">>)

\* C17: when read(n) succeeds, file_type(n) is File; when read(n) fails with
\* NotFound, file_type(n) is Directory or fails with NotFound.
C17_ReadAgreesWithFileType ==
    (zip_read # NoAnswer /\ zip_file_type # NoAnswer)
        => /\ zip_read.kind = "Ok"
                => (zip_file_type.kind = "Ok" /\ zip_file_type.file_type = "File")
           /\ (zip_read.kind = "Err" /\ zip_read.error_kind = "NotFound")
                => \/ (zip_file_type.kind = "Ok" /\ zip_file_type.file_type = "Directory")
                   \/ (zip_file_type.kind = "Err" /\ zip_file_type.error_kind = "NotFound")

\* the query with a '/' at its end, as dirs holds it
AsDir(q) == IF ends_with(q, <<"/">>) THEN q ELSE Append(q, "/")

\* C18: file_type(q) is Directory for "d" and for "d/" when "d/" is in dirs;
\* it is File only when q is a key of files; it fails with NotFound when q is
\* neither.
C18_FileTypeCases ==
    zip_file_type # NoAnswer
        => /\ AsDir(zip_query) \in zip_value.dirs
                => (zip_file_type.kind = "Ok" /\ zip_file_type.file_type = "Directory")
           /\ (zip_file_type.kind = "Ok" /\ zip_file_type.file_type = "File")
                => zip_query \in DOMAIN zip_value.files
           /\ (AsDir(zip_query) \notin zip_value.dirs /\ zip_query \notin DOMAIN zip_value.files)
                => (zip_file_type.kind = "Err" /\ zip_file_type.error_kind = "NotFound")

\* "d" without its '/' is answered Directory, and a key of files is answered
\* File
C18_Witness ==
    /\ zip_file_type # NoAnswer
    /\ zip_file_type.kind = "Ok"
    /\ zip_file_type.file_type = "Directory"
    /\ zip_query = <<"a">>
    /\ <<"a", "/", "b">> \in DOMAIN zip_value.files

\* the file is an archive with a header whose compression method is neither
\* 0 nor 8
HasUnknownMethod(file) ==
    /\ file # NoFile
    /\ file.end_of_central_directory
    /\ \E i \in 1..Len(file.headers) : file.headers[i].compression_method \notin {STORE, DEFLATE}

\* C19: opening an archive that has an entry with a compression method other
\* than 0 and 8 returns an error, and does not abort.
C19_UnknownMethodIsAnError ==
    (zip_value # NoZip /\ HasUnknownMethod(zip_file)) => zip_value.kind = "Err"

(***************************************************************************)
(* SpecTrie: paths are inserted into a Trie, each with a value that names  *)
(* the path given, and the Trie is asked for the ancestor of a path.       *)
(***************************************************************************)
\* most insert calls
MaxInserts == 2
\* most segments of a path given to the Trie
MaxTrieSegments == 2

TrieSegments == {<<"a">>, <<"a", "a">>, <<".", ".">>}

\* the paths given to the Trie: absolute or relative, with or without a '/'
\* at the end
TriePaths ==
    {lead \o join(segments, <<"/">>) \o trail :
        lead \in {<<>>, <<"/">>}, trail \in {<<>>, <<"/">>},
        segments \in UNION {[1..n -> TrieSegments] : n \in 0..MaxTrieSegments}}

\* the value inserted with a path
TrieValue(path) == Locator(path, <<>>)

InitTrie ==
    /\ trie_inner = EmptyMap
    /\ trie_keys = <<>>
    /\ trie_query = Unset
    /\ trie_answer = NoTrieAnswer
    /\ IdleNorm
    /\ IdleParse
    /\ IdleResolve
    /\ IdleFs
    /\ IdleLoad
    /\ IdleStorage

\* trie.insert(path, value)
TrieInsert ==
    /\ trie_query = Unset
    /\ Len(trie_keys) < MaxInserts
    /\ \E path \in TriePaths :
        /\ trie_inner' = trie_insert(trie_inner, path, TrieValue(path))
        /\ trie_keys' = Append(trie_keys, path)
    /\ UNCHANGED <<trie_query, trie_answer, outsideTrie>>

\* trie.get_ancestor_value(path)
TrieGetAncestorValue ==
    /\ trie_query = Unset
    /\ \E path \in TriePaths :
        /\ trie_query' = path
        /\ trie_answer' = trie_get_ancestor_value(trie_inner, path)
    /\ UNCHANGED <<trie_inner, trie_keys, outsideTrie>>

NextTrie == TrieInsert \/ TrieGetAncestorValue

SpecTrie == InitTrie /\ [][NextTrie]_vars

(***************************************************************************)
(* Claims about the Trie, under SpecTrie.                                  *)
(***************************************************************************)
\* the segments of a normalized path taken as a directory: the pieces
\* between its '/', the empty piece after a '/' at the end left out
DirSegments(path) ==
    IF ends_with(normalize_path(path), <<"/">>)
    THEN SubSeq(split(normalize_path(path), {"/"}), 1, Len(split(normalize_path(path), {"/"})) - 1)
    ELSE split(normalize_path(path), {"/"})

\* the key is a whole-segment directory prefix of the query
IsDirPrefix(key, query) ==
    /\ Len(DirSegments(key)) <= Len(DirSegments(query))
    /\ SubSeq(DirSegments(query), 1, Len(DirSegments(key))) = DirSegments(key)

\* the insert calls whose key is a whole-segment directory prefix of the query
AncestorInserts == {i \in 1..Len(trie_keys) : IsDirPrefix(trie_keys[i], trie_query)}

\* C28: get_ancestor_value returns the value inserted (last) under the longest
\* key that is a whole-segment directory prefix of the normalized path, and
\* None when no inserted key is such a prefix.
C28_LongestSegmentPrefix ==
    trie_query # Unset
        => IF AncestorInserts = {} THEN trie_answer = NoLocator
           ELSE \E i \in AncestorInserts :
                    /\ trie_answer = TrieValue(trie_keys[i])
                    /\ \A j \in AncestorInserts :
                        /\ Len(DirSegments(trie_keys[j])) <= Len(DirSegments(trie_keys[i]))
                        /\ DirSegments(trie_keys[j]) = DirSegments(trie_keys[i]) => j <= i

\* "/a" and "/a/aa" are inserted: "/a/aa" gets the deeper one, and "/aa"
\* gets none
C28_Witness ==
    /\ trie_keys = << <<"/", "a">>, <<"/", "a", "/", "a", "a">> >>
    /\ trie_query = <<"/", "a", "/", "a", "a">>
    /\ trie_answer = TrieValue(<<"/", "a", "/", "a", "a">>)

(***************************************************************************)
(* src/src/lib.rs: load_pnp_manifest.  The file is given by what its       *)
(* content holds: whether it can be read, whether the payload marker is    *)
(* found, and what serde makes of the payload.                             *)
(***************************************************************************)
ManifestFile(readable, marker, payload) ==
    [readable |-> readable, marker |-> marker, payload |-> payload]

\* a payload serde_json::from_str rejects
InvalidPayload == [manifest_path |-> <<"<invalid>">>]

\* Error::FailedManifestHydration
FailedHydration(message, manifest_path) ==
    [kind |-> "FailedManifestHydration", message |-> message, manifest_path |-> manifest_path]

\* Ok(manifest), or the abort of init_pnp_manifest
load_initialized(initialized) ==
    IF initialized = Panic("Should have a parent directory")
       \/ initialized = Panic("Assertion failed: Should have a top-level name key")
       \/ initialized = Panic("Assertion failed: Should have a top-level range key")
    THEN initialized
    ELSE [kind |-> "Ok", manifest |-> initialized]

\* load_pnp_manifest(p), given the order init_pnp_manifest meets the packages in
load_pnp_manifest(file, p, order) ==
    IF ~file.readable
    THEN FailedHydration("We failed to read the content of the manifest.", p)
    ELSE IF ~file.marker
    THEN FailedHydration("We failed to locate the PnP data payload inside its manifest file.", p)
    ELSE IF file.payload = InvalidPayload
    THEN FailedHydration("We failed to parse the PnP data payload as proper JSON", p)
    ELSE load_initialized(init_pnp_manifest(file.payload, p, order))

\* the orders init_pnp_manifest can take for a file
load_orders(file) ==
    IF file.readable /\ file.marker /\ file.payload # InvalidPayload
    THEN iteration_orders(file.payload)
    ELSE {<<>>}

(***************************************************************************)
(* SpecLoad: a manifest file is loaded, and find_locator is asked for the  *)
(* location of one of the registered packages.  The manifests: a project   *)
(* at /r whose packages a@1 and b@1 may share a location, be nested, or be *)
(* discarded from the lookup, and whose registry may lack the top-level    *)
(* package.                                                                *)
(***************************************************************************)
\* the registry entries of the name "": the top-level package with its
\* dependencies, no entry, or an entry with another reference only
LoadTopLevels ==
    {<<>> :> (<<>> :> PackageInformation(<<".", "/">>, FALSE, deps)) :
        deps \in {EmptyMap, Str_a :> Reference(Ref2),
                  (Str_a :> Reference(Ref1)) @@ (Str_b :> NoneDependency)}}
        \cup {EmptyMap, <<>> :> (Ref1 :> PackageInformation(<<".", "/">>, FALSE, EmptyMap))}

LoadFallbackPools ==
    {EmptyMap, Str_a :> Reference(Ref1), Str_b :> Reference(Ref1), Str_a :> NoneDependency}

LoadRegistries ==
    {top @@ (Str_a :> (Ref1 :> PackageInformation(a_location, a_discard, Str_b :> Reference(Ref1))))
         @@ (Str_b :> (Ref1 :> PackageInformation(b_location, b_discard, EmptyMap))) :
        top \in LoadTopLevels,
        a_location \in {<<".", "/", "a", "/">>, <<".", "/", "a">>},
        a_discard \in BOOLEAN,
        b_location \in {<<".", "/", "a", "/">>, <<".", "/", "a", "/", "b", "/">>, <<".", "/">>},
        b_discard \in BOOLEAN}

LoadManifests ==
    {DeserializedManifest(TRUE, ignore, pool, EmptyMap, registry) :
        ignore \in {NoRegex, RegexDef(<<"a", "/">>)}, pool \in LoadFallbackPools,
        registry \in LoadRegistries}

ManifestFiles ==
    {ManifestFile(FALSE, FALSE, InvalidPayload), ManifestFile(TRUE, FALSE, InvalidPayload),
     ManifestFile(TRUE, TRUE, InvalidPayload)}
        \cup {ManifestFile(TRUE, TRUE, m) : m \in LoadManifests}

InitLoad ==
    /\ manifest_file \in ManifestFiles
    /\ loaded = NotLoaded
    /\ located = NotLocated
    /\ IdleNorm
    /\ IdleParse
    /\ IdleResolve
    /\ IdleFs
    /\ IdleTrie
    /\ IdleStorage

\* load_pnp_manifest("/r/.pnp.cjs")
LoadPnpManifest ==
    /\ loaded = NotLoaded
    /\ \E order \in load_orders(manifest_file) :
           loaded' = load_pnp_manifest(manifest_file, ManifestPath, order)
    /\ UNCHANGED <<manifest_file, located, outsideLoad>>

\* find_locator(&manifest, package_location) for a registered package
FindLocator ==
    /\ loaded.kind = "Ok"
    /\ located = NotLocated
    /\ \E locator \in registry_locators(loaded.manifest) :
           located' =
               [path |-> get_package(loaded.manifest, locator).package_location,
                locator |-> find_locator(loaded.manifest,
                                         get_package(loaded.manifest, locator).package_location)]
    /\ UNCHANGED <<manifest_file, loaded, outsideLoad>>

NextLoad == LoadPnpManifest \/ FindLocator

SpecLoad == InitLoad /\ [][NextLoad]_vars

(***************************************************************************)
(* Claims about load_pnp_manifest and init_pnp_manifest, under SpecLoad.   *)
(***************************************************************************)
\* the manifest load_pnp_manifest returned, and the payload it was made from
LoadedOk == loaded # NotLoaded /\ loaded.kind = "Ok"
Declared == manifest_file.payload

\* the packages of the loaded manifest that are not discarded from the lookup
LookupLocators ==
    {locator \in registry_locators(loaded.manifest) :
        ~get_package(loaded.manifest, locator).discard_from_lookup}

\* the location of a package of the loaded manifest, as a directory
LocationOf(locator) == AsDir(get_package(loaded.manifest, locator).package_location)

\* location_trie holds only packages that are not discarded from the lookup
TrieHoldsLookupLocators ==
    \A key \in DOMAIN loaded.manifest.location_trie :
        loaded.manifest.location_trie[key] \in LookupLocators

\* find_locator has been asked, and no ignore pattern is set
LocatedWithoutPattern ==
    LoadedOk /\ located # NotLocated /\ loaded.manifest.ignore_pattern_data = NoRegex

\* C23: after init_pnp_manifest, location_trie holds only locators whose
\* package has discard_from_lookup = false, and for every such locator L
\* find_locator(package_location of L) = L when no ignore pattern is set,
\* also when packages share or nest their locations.
C23_FindLocatorIsIdentity ==
    /\ LoadedOk => TrieHoldsLookupLocators
    /\ LocatedWithoutPattern
        => \A locator \in LookupLocators :
               LocationOf(locator) = AsDir(located.path) => located.locator = locator

\* C23, amended: location_trie holds only locators whose package has
\* discard_from_lookup = false; with no ignore pattern, find_locator of the
\* location of such a locator L returns a locator of that set at the same
\* location, which is L when no other locator of the set shares the location.
C23_FindLocatorAtLocation ==
    /\ LoadedOk => TrieHoldsLookupLocators
    /\ LocatedWithoutPattern
        => \A locator \in LookupLocators :
               LocationOf(locator) = AsDir(located.path)
                   => /\ located.locator \in LookupLocators
                      /\ LocationOf(located.locator) = LocationOf(locator)

\* b@1 is nested in a@1, neither is discarded, and the location of b@1 has
\* been found to be that of b@1
C23_Witness ==
    /\ LocatedWithoutPattern
    /\ {PackageA, PackageB} \subseteq LookupLocators
    /\ starts_with(LocationOf(PackageB), LocationOf(PackageA))
    /\ LocationOf(PackageB) # LocationOf(PackageA)
    /\ located.path = get_package(loaded.manifest, PackageB).package_location
    /\ located.locator = PackageB

\* the payload has no top-level (null name, null reference) entry
NoTopLevelEntry(payload) ==
    \/ <<>> \notin DOMAIN payload.package_registry_data
    \/ <<>> \notin DOMAIN payload.package_registry_data[<<>>]

\* the file is one the claim lists: unreadable, without the payload marker,
\* with a payload serde rejects, or with a registry that lacks the top-level
\* entry
LoadMustFail(file) ==
    \/ ~file.readable
    \/ ~file.marker
    \/ file.payload = InvalidPayload
    \/ NoTopLevelEntry(file.payload)

\* C24: load_pnp_manifest returns a Manifest or a FailedManifestHydration
\* error carrying the manifest path; an unreadable file, a missing marker, an
\* invalid payload and a registry with no top-level entry all give
\* FailedManifestHydration, and never abort the caller.
C24_LoadFailsWithHydrationError ==
    loaded # NotLoaded
        => /\ loaded.kind \in {"Ok", "FailedManifestHydration"}
           /\ LoadMustFail(manifest_file)
                => /\ loaded.kind = "FailedManifestHydration"
                   /\ loaded.manifest_path = ManifestPath

\* the dependencies the top-level package declares in the payload
DeclaredTopLevelDependencies ==
    Declared.package_registry_data[<<>>][<<>>].package_dependencies

\* C25: after init_pnp_manifest, fallback_pool is the declared fallbackPool
\* extended with the top-level package's package_dependencies for exactly the
\* names the declared pool does not contain: a name in both keeps the declared
\* pool's value, and the other dependency tables are unchanged.
C25_FallbackPoolExtended ==
    LoadedOk
        => /\ DOMAIN loaded.manifest.fallback_pool
                = DOMAIN Declared.fallback_pool \cup DOMAIN DeclaredTopLevelDependencies
           /\ \A name \in DOMAIN Declared.fallback_pool :
                loaded.manifest.fallback_pool[name] = Declared.fallback_pool[name]
           /\ \A name \in DOMAIN DeclaredTopLevelDependencies \ DOMAIN Declared.fallback_pool :
                loaded.manifest.fallback_pool[name] = DeclaredTopLevelDependencies[name]
           /\ registry_locators(loaded.manifest) = registry_locators(Declared)
           /\ \A locator \in registry_locators(Declared) :
                get_package(loaded.manifest, locator).package_dependencies
                    = get_package(Declared, locator).package_dependencies
           /\ loaded.manifest.fallback_exclusion_list = Declared.fallback_exclusion_list

\* the declared pool and the top-level package both name a, with different
\* values, and the pool's value has been kept
C25_Witness ==
    /\ LoadedOk
    /\ Declared.fallback_pool = (Str_a :> NoneDependency)
    /\ DeclaredTopLevelDependencies = (Str_a :> Reference(Ref2))
    /\ loaded.manifest.fallback_pool = (Str_a :> NoneDependency)

(***************************************************************************)
(* src/src/zip.rs on the bytes of the storage: find_central_directory_     *)
(* offset, read_central_file_header and list_zip_entries as they move a    *)
(* Cursor over the data.  A byte is a number below 256; position p of the  *)
(* Cursor is before element p + 1 of the sequence.                         *)
(***************************************************************************)
\* the signatures of the end of central directory record and of a central
\* file header
EOCD_SIGNATURE == 101010256
CENTRAL_SIGNATURE == 33639248

\* a read of the Cursor that meets the end of the data (UnexpectedEof)
Eof == -1

\* the position len - 22 of a build without overflow checks, for a storage
\* shorter than 22 bytes: a position far behind the end of the data
WrappedPosition == 2147483647

\* ReadBytesExt::read_u16::<LittleEndian> and read_u32::<LittleEndian> at a
\* position
read_u16(data, position) ==
    IF position > Len(data) - 2 THEN Eof
    ELSE data[position + 1] + 256 * data[position + 2]

read_u32(data, position) ==
    IF position > Len(data) - 4 THEN Eof
    ELSE data[position + 1] + 256 * data[position + 2] + 65536 * data[position + 3]
            + 16777216 * data[position + 4]

\* Read::read_exact of n bytes at a position
read_exact(data, position, n) ==
    IF position > Len(data) - n THEN <<Eof>>
    ELSE SubSeq(data, position + 1, position + n)

\* the characters of the bytes below 0x80, as String::from_utf8 gives them;
\* a character a string of the model cannot hold is written \xNN
AsciiChars ==
<<
      "\\x00", "\\x01", "\\x02", "\\x03", "\\x04", "\\x05", "\\x06", "\\x07",
      "\\x08", "\\x09", "\\x0a", "\\x0b", "\\x0c", "\\x0d", "\\x0e", "\\x0f",
      "\\x10", "\\x11", "\\x12", "\\x13", "\\x14", "\\x15", "\\x16", "\\x17",
      "\\x18", "\\x19", "\\x1a", "\\x1b", "\\x1c", "\\x1d", "\\x1e", "\\x1f",
      " ", "!", "\"", "#", "$", "%", "&", "'",
      "(", ")", "*", "+", ",", "-", ".", "/",
      "0", "1", "2", "3", "4", "5", "6", "7",
      "8", "9", ":", ";", "<", "=", ">", "?",
      "@", "A", "B", "C", "D", "E", "F", "G",
      "H", "I", "J", "K", "L", "M", "N", "O",
      "P", "Q", "R", "S", "T", "U", "V", "W",
      "X", "Y", "Z", "[", "\\", "]", "^", "_",
      "\\x60", "a", "b", "c", "d", "e", "f", "g",
      "h", "i", "j", "k", "l", "m", "n", "o",
      "p", "q", "r", "s", "t", "u", "v", "w",
      "x", "y", "z", "{", "|", "}", "~", "\\x7f" >>

\* String::from_utf8: the bytes of the model are below 0x80, and a byte from
\* 0x80 on is met only as a sequence that is not UTF-8
InvalidUtf8 == <<"<invalid utf-8>">>
from_utf8(bytes) ==
    IF \E i \in 1..Len(bytes) : bytes[i] >= 128 THEN InvalidUtf8
    ELSE [i \in 1..Len(bytes) |-> AsciiChars[bytes[i] + 1]]

\* the loop of find_central_directory_offset: while position > 0, the four
\* bytes at the position are read; on the signature the offset 16 bytes
\* after it is returned, otherwise the position goes back by 5 from the end
\* of the read, to the byte before
RECURSIVE find_signature_from(_, _)
find_signature_from(data, position) ==
    IF ~(position > 0) THEN BoxedError("End of central directory record not found.")
    ELSE IF read_u32(data, position) = Eof THEN BoxedError("UnexpectedEof")
    ELSE IF read_u32(data, position) = EOCD_SIGNATURE
    THEN IF read_u32(data, position + 16) = Eof THEN BoxedError("UnexpectedEof")
         ELSE [kind |-> "Ok", central_directory_offset |-> read_u32(data, position + 16)]
    ELSE find_signature_from(data, position - 1)

\* find_central_directory_offset: len - 22 is computed in u64; for a storage
\* shorter than 22 bytes the build with overflow checks aborts and the other
\* one wraps
find_central_directory_offset(data, overflow_checks) ==
    IF Len(data) < 22
    THEN IF overflow_checks THEN ZipPanic("attempt to subtract with overflow")
         ELSE find_signature_from(data, WrappedPosition)
    ELSE find_signature_from(data, Len(data) - 22)

\* Entry, with the offset and the size the headers give
EntryAt(compression, offset, size) ==
    [compression |-> compression, offset |-> offset, size |-> size]

\* what read_central_file_header returns, and where it leaves the Cursor
HeaderRead(name, entry, position) ==
    [kind |-> "Ok", name |-> name, entry |-> entry, position |-> position]
NoHeader == [kind |-> "None"]

\* read_central_file_header, the file entry: the Cursor skips the extra field
\* and the comment, and the lengths of the local file header are read at
\* local_header_offset + 26
header_entry(data, name, compression_method, compressed_size, local_header_offset, position) ==
    IF read_u16(data, local_header_offset + 26) = Eof
       \/ read_u16(data, local_header_offset + 28) = Eof
    THEN BoxedError("UnexpectedEof")
    ELSE HeaderRead(name,
                    EntryAt(IF compression_method = STORE THEN "Uncompressed" ELSE "Deflate",
                            local_header_offset + 30 + read_u16(data, local_header_offset + 26)
                                + read_u16(data, local_header_offset + 28),
                            compressed_size),
                    position)

\* read_central_file_header, from the file name on: a name that ends in '/'
\* returns with the Cursor right after the name
header_named(data, start, file_name_bytes, compression_method) ==
    IF file_name_bytes = <<Eof>> THEN BoxedError("UnexpectedEof")
    ELSE IF from_utf8(file_name_bytes) = InvalidUtf8 THEN BoxedError("FromUtf8Error")
    ELSE IF ends_with(from_utf8(file_name_bytes), <<"/">>)
    THEN HeaderRead(from_utf8(file_name_bytes), NoEntry, start + 46 + Len(file_name_bytes))
    ELSE header_entry(data, from_utf8(file_name_bytes), compression_method,
                      read_u32(data, start + 20), read_u32(data, start + 42),
                      start + 46 + Len(file_name_bytes)
                          + read_u16(data, start + 30) + read_u16(data, start + 32))

\* read_central_file_header with the Cursor at start: the signature, the
\* compression method with its unwrap(), the fixed fields up to byte 46, then
\* the name
read_central_file_header_at(data, start) ==
    IF read_u32(data, start) = Eof THEN BoxedError("UnexpectedEof")
    ELSE IF read_u32(data, start) # CENTRAL_SIGNATURE THEN NoHeader
    ELSE IF read_u16(data, start + 10) = Eof THEN BoxedError("UnexpectedEof")
    ELSE IF read_u16(data, start + 10) \notin {STORE, DEFLATE}
    THEN ZipPanic("called Result::unwrap() on an Err value: Oh no")
    ELSE IF read_u32(data, start + 42) = Eof THEN BoxedError("UnexpectedEof")
    ELSE header_named(data, start, read_exact(data, start + 46, read_u16(data, start + 28)),
                      read_u16(data, start + 10))

\* the loop of list_zip_entries with the Cursor at a position
RECURSIVE list_entries_from(_, _, _)
list_entries_read(data, zip_entries, header) ==
    IF header.kind = "None" THEN [kind |-> "Ok", zip_entries |-> zip_entries]
    ELSE IF header.kind # "Ok" THEN header
    ELSE list_entries_from(data, header.position,
                           map_insert(zip_entries, header.name, header.entry))

list_entries_from(data, position, zip_entries) ==
    list_entries_read(data, zip_entries, read_central_file_header_at(data, position))

\* list_zip_entries on the bytes
list_entries_found(data, found) ==
    IF found.kind # "Ok" THEN found
    ELSE list_entries_from(data, found.central_directory_offset, EmptyMap)

list_zip_entries_of(data, overflow_checks) ==
    list_entries_found(data, find_central_directory_offset(data, overflow_checks))

\* the orders Zip::new can take for a storage
storage_orders(listed) ==
    IF listed.kind # "Ok" THEN {<<>>} ELSE entry_orders(listed.zip_entries)

\* Zip::read on the storage: the slice data[offset..offset + size] aborts
\* when it ends after the data; a Deflate entry is inflated, which can fail
read_slice(data, entry, inflates) ==
    IF entry.offset > Len(data) \/ entry.size > Len(data) - entry.offset
    THEN ZipPanic("range end index out of range for slice")
    ELSE IF entry.compression = "Deflate" /\ ~inflates THEN IoError("Other")
    ELSE [kind |-> "Ok", bytes |-> SubSeq(data, entry.offset + 1, entry.offset + entry.size)]

read_storage(zip, data, p, inflates) ==
    IF p \notin DOMAIN zip.files THEN IoError("NotFound")
    ELSE read_slice(data, zip.files[p], inflates)

(***************************************************************************)
(* SpecStorage: the bytes of a storage are searched for the central        *)
(* directory, indexed by Zip::new, and read.  The storages are archives    *)
(* written from at most MaxStoredEntries entries, with or without a        *)
(* comment after the end of central directory record, and byte strings     *)
(* that hold no archive.                                                   *)
(***************************************************************************)
\* most entries of a written archive
MaxStoredEntries == 2

\* u16 and u32 in little endian
le16(n) == <<n % 256, n \div 256>>
le32(n) == <<n % 256, (n \div 256) % 256, (n \div 65536) % 256, n \div 16777216>>

\* n bytes of one value
Fill(n, byte) == [i \in 1..n |-> byte]

\* an entry to write: its name, its compression method, its data, the lengths
\* of the extra field and of the comment of its central file header, the
\* compressed size and the shift of the local header offset that header states
StoredEntry(name, method, data, extra, comment, size, shift) ==
    [name |-> name, method |-> method, data |-> data, extra |-> extra, comment |-> comment,
     size |-> size, shift |-> shift]

\* the names "a", "d/" and "d/a", and the data "xy"
StoredNames == {<<97>>, <<100, 47>>, <<100, 47, 97>>}
StoredData(name) == IF name[Len(name)] = 47 THEN <<>> ELSE <<120, 121>>

\* the entries: stored, deflated, with an extra field and a comment, with a
\* compressed size that ends after the storage, with a local header offset
\* behind the storage
StoredEntries ==
    UNION {{StoredEntry(name, STORE, StoredData(name), 0, 0, Len(StoredData(name)), 0),
            StoredEntry(name, DEFLATE, StoredData(name), 0, 0, Len(StoredData(name)), 0),
            StoredEntry(name, STORE, StoredData(name), 2, 1, Len(StoredData(name)), 0),
            StoredEntry(name, STORE, StoredData(name), 0, 0, Len(StoredData(name)) + 1024, 0),
            StoredEntry(name, STORE, StoredData(name), 0, 0, Len(StoredData(name)), 4096)} :
        name \in StoredNames}

\* a local file header with its name and data
LocalRecord(entry) ==
    <<80, 75, 3, 4>> \o Fill(22, 0) \o le16(Len(entry.name)) \o le16(0) \o entry.name \o entry.data

\* a central file header with its name, extra field and comment
CentralRecord(entry, local_header_offset) ==
    le32(CENTRAL_SIGNATURE) \o Fill(6, 0) \o le16(entry.method) \o Fill(8, 0)
        \o le32(entry.size) \o le32(Len(entry.data))
        \o le16(Len(entry.name)) \o le16(entry.extra) \o le16(entry.comment) \o Fill(8, 0)
        \o le32(local_header_offset + entry.shift)
        \o entry.name \o Fill(entry.extra + entry.comment, 1)

\* an end of central directory record with its comment
EndRecord(central_directory_offset, comment) ==
    le32(EOCD_SIGNATURE) \o Fill(12, 0) \o le32(central_directory_offset)
        \o le16(Len(comment)) \o comment

RECURSIVE LocalRecords(_, _)
LocalRecords(entries, i) ==
    IF i > Len(entries) THEN <<>>
    ELSE LocalRecord(entries[i]) \o LocalRecords(entries, i + 1)

RECURSIVE CentralRecords(_, _, _)
CentralRecords(entries, i, local_header_offset) ==
    IF i > Len(entries) THEN <<>>
    ELSE CentralRecord(entries[i], local_header_offset)
            \o CentralRecords(entries, i + 1, local_header_offset + Len(LocalRecord(entries[i])))

\* the archive of the entries
WrittenArchive(entries, comment) ==
    LocalRecords(entries, 1) \o CentralRecords(entries, 1, 0)
        \o EndRecord(Len(LocalRecords(entries, 1)), comment)

\* the comments: none, three bytes, and 22 bytes that are an end of central
\* directory record themselves, with the central directory at offset 0
ArchiveComments == {<<>>, <<1, 1, 1>>, EndRecord(0, <<>>)}

\* the storages
Storages ==
    {WrittenArchive(entries, comment) :
        entries \in UNION {[1..n -> StoredEntries] : n \in 0..MaxStoredEntries},
        comment \in ArchiveComments}
        \cup {Fill(n, 0) : n \in {0, 5, 21, 22, 30}}

\* the names the Zip is asked to read
StorageQueries == {<<"a">>, <<"d", "/">>, <<"d", "/", "a">>, <<"z">>}

InitStorage ==
    /\ zip_storage \in Storages
    /\ found_offset = NotSearched
    /\ zip_indexed = NoZip
    /\ storage_query = Unset
    /\ storage_read = NoAnswer
    /\ IdleNorm
    /\ IdleParse
    /\ IdleResolve
    /\ IdleFs
    /\ IdleTrie
    /\ IdleLoad

\* find_central_directory_offset(&mut Cursor::new(data))
FindCentralDirectoryOffset ==
    /\ found_offset = NotSearched
    /\ \E overflow_checks \in BOOLEAN :
           found_offset' = find_central_directory_offset(zip_storage, overflow_checks)
    /\ UNCHANGED <<zip_storage, zip_indexed, storage_query, storage_read, outsideStorage>>

\* Zip::new(storage)
ZipNew ==
    /\ zip_indexed = NoZip
    /\ \E overflow_checks \in BOOLEAN :
        \E order \in storage_orders(list_zip_entries_of(zip_storage, overflow_checks)) :
           zip_indexed' = zip_new_listed(list_zip_entries_of(zip_storage, overflow_checks), order)
    /\ UNCHANGED <<zip_storage, found_offset, storage_query, storage_read, outsideStorage>>

\* zip.read(p)
ZipRead ==
    /\ zip_indexed.kind = "Zip"
    /\ storage_read = NoAnswer
    /\ \E p \in StorageQueries, inflates \in BOOLEAN :
        /\ storage_query' = p
        /\ storage_read' = read_storage(zip_indexed, zip_storage, p, inflates)
    /\ UNCHANGED <<zip_storage, found_offset, zip_indexed, outsideStorage>>

NextStorage == FindCentralDirectoryOffset \/ ZipNew \/ ZipRead

SpecStorage == InitStorage /\ [][NextStorage]_vars

(***************************************************************************)
(* Claims about the bytes of the storage, under SpecStorage.               *)
(***************************************************************************)
\* the four bytes at a position are those of a signature
SignatureAt(data, position, signature) ==
    /\ position + 4 <= Len(data)
    /\ SubSeq(data, position + 1, position + 4) = le32(signature)

\* the positions p with 0 <= p <= len - 22 that hold the signature of the end
\* of central directory record
EndRecordPositions(data) ==
    {p \in 0..(Len(data) - 22) : SignatureAt(data, p, EOCD_SIGNATURE)}

LastEndRecord(data) ==
    CHOOSE p \in EndRecordPositions(data) : \A q \in EndRecordPositions(data) : q <= p

\* C27: find_central_directory_offset returns the offset stored 16 bytes
\* after the last signature 0x06054b50 at a position p with 0 <= p <= len - 22
\* (p = 0 included), and returns an error, with no arithmetic underflow, when
\* there is none or the input is shorter than 22 bytes.
C27_LastEndRecordOrError ==
    found_offset # NotSearched
        => IF EndRecordPositions(zip_storage) # {}
           THEN /\ found_offset.kind = "Ok"
                /\ le32(found_offset.central_directory_offset)
                    = SubSeq(zip_storage, LastEndRecord(zip_storage) + 17,
                             LastEndRecord(zip_storage) + 20)
           ELSE found_offset.kind = "Err"

\* the u16 at a position
U16At(data, position) == data[position + 1] + 256 * data[position + 2]

\* the names of the contiguous run of central file headers from a position
\* on, each header taken with its name, its extra field and its comment
RECURSIVE RunNames(_, _)
RunNames(data, position) ==
    IF ~SignatureAt(data, position, CENTRAL_SIGNATURE) \/ position + 46 > Len(data) THEN {}
    ELSE IF position + 46 + U16At(data, position + 28) > Len(data) THEN {}
    ELSE {from_utf8(SubSeq(data, position + 47, position + 46 + U16At(data, position + 28)))}
            \cup RunNames(data, position + 46 + U16At(data, position + 28)
                                    + U16At(data, position + 30) + U16At(data, position + 32))

\* the offset of the central directory the end record of the storage states
CentralDirectoryStart == find_central_directory_offset(zip_storage, FALSE).central_directory_offset

\* C26: Zip::new indexes every header of the contiguous run of central file
\* headers from the central-directory offset on, whatever its extra-field and
\* comment lengths: the normalized name is a key of files, or an element of
\* dirs when the name ends in '/'; a directory entry hides no entry after it.
C26_EveryHeaderIndexed ==
    zip_indexed.kind = "Zip"
        => \A name \in RunNames(zip_storage, CentralDirectoryStart) :
               IF ends_with(name, <<"/">>) THEN normalize_path(name) \in zip_indexed.dirs
               ELSE normalize_path(name) \in DOMAIN zip_indexed.files

\* C29: for a storage Zip::new accepts, every indexed Entry has
\* offset + size <= the length of the storage, and read returns bytes or an
\* I/O error.
C29_EntriesInsideStorage ==
    zip_indexed.kind = "Zip"
        => /\ \A name \in DOMAIN zip_indexed.files :
                /\ zip_indexed.files[name].offset <= Len(zip_storage)
                /\ zip_indexed.files[name].size
                        <= Len(zip_storage) - zip_indexed.files[name].offset
           /\ storage_read # NoAnswer => storage_read.kind \in {"Ok", "Err"}

====
